---- MODULE Spec2Model ----
(***************************************************************************)
(* Model of the Rainsoft integration: the API client (api.py), the polling *)
(* coordinator (coordinator.py) and the entry setup (__init__.py).         *)
(*                                                                         *)
(* Coroutines are modelled as frames on a call stack.  One action is one   *)
(* stretch of code between two suspension points of a coroutine (a call    *)
(* it awaits, or the HTTP exchange itself).  The vendor server is the      *)
(* environment: every HTTP exchange draws its answer from a bounded set.   *)
(***************************************************************************)
EXTENDS Integers, Sequences, FiniteSets, TLC

VARIABLES
    token,                \* RainsoftApiClient._token
    customer_id,          \* RainsoftApiClient._customer_id
    devices,              \* RainsoftDataUpdateCoordinator.devices
    data,                 \* coordinator.data: the committed snapshot
    last_update_success,  \* coordinator.last_update_success
    loaded,               \* hass.data[DOMAIN][entry_id] holds the coordinator
    entities,             \* the entities the two platforms have added
    entries,              \* the config entries the config flow has created
    stack,                \* call stack of the running coroutine (frames)
    ret,                  \* value or exception travelling to the caller
    log,                  \* HTTP exchanges of the current call of _request
    op,                   \* name of the running / last top-level operation
    options,              \* entry.options.get(CONF_SCAN_INTERVAL), Missing if unset
    update_interval       \* coordinator.update_interval in hours, 0: no coordinator

vars == <<token, customer_id, devices, data, last_update_success, loaded,
          entities, entries, stack, ret, log, op, options, update_interval>>

-----------------------------------------------------------------------------
(* Bounds of the model *)

\* longest device listing the server answers with
MaxDevices == 2

-----------------------------------------------------------------------------
(* Python / JSON values.  Strings are sequences of one-character strings.  *)

Missing == [t |-> "missing", i |-> 0, s |-> <<>>]
PyNone == [t |-> "none", i |-> 0, s |-> <<>>]
PyInt(n) == [t |-> "int", i |-> n, s |-> <<>>]
PyStr(x) == [t |-> "str", i |-> 0, s |-> x]
PyBool(b) == [t |-> "bool", i |-> IF b THEN 1 ELSE 0, s |-> <<>>]
\* a finite float: its integer part (towards zero) and the digits after the point
PyFloat(whole, frac) == [t |-> "float", i |-> whole, s |-> frac]
\* float("inf") and float("-inf"), which json.loads gives for Infinity or 1e999
PyInf(sign) == [t |-> "inf", i |-> sign, s |-> <<>>]
\* float("nan")
PyNaN == [t |-> "nan", i |-> 0, s |-> <<>>]
\* a JSON array or object, here the empty array
PyList == [t |-> "list", i |-> 0, s |-> <<>>]

\* bool(v)
Truthy(v) ==
    CASE v.t \in {"int", "bool"} -> v.i # 0
      [] v.t = "str" -> v.s # <<>>
      [] v.t = "float" -> v.i # 0 \/ \E k \in 1..Len(v.s) : v.s[k] # "0"
      [] v.t \in {"inf", "nan"} -> TRUE
      [] OTHER -> FALSE

\* dict.get(key, default) on a field that may be absent
GetOr(v, default) == IF v.t = "missing" THEN default ELSE v

\* dict.get(key)
Get(v) == GetOr(v, PyNone)

Digit(n) == <<"0", "1", "2", "3", "4", "5", "6", "7", "8", "9">>[n + 1]

RECURSIVE DecStr(_)
DecStr(n) == IF n < 10 THEN <<Digit(n)>> ELSE DecStr(n \div 10) \o <<Digit(n % 10)>>

\* str(v)
Str(v) ==
    CASE v.t = "int" -> IF v.i < 0 THEN <<"-">> \o DecStr(0 - v.i) ELSE DecStr(v.i)
      [] v.t = "str" -> v.s
      [] OTHER -> <<"N", "o", "n", "e">>

LowerChar(c) ==
    LET UpperChars == <<"A", "B", "C", "D", "E", "F", "G", "H", "I", "J", "K", "L", "M",
                        "N", "O", "P", "Q", "R", "S", "T", "U", "V", "W", "X", "Y", "Z">>
        LowerChars == <<"a", "b", "c", "d", "e", "f", "g", "h", "i", "j", "k", "l", "m",
                        "n", "o", "p", "q", "r", "s", "t", "u", "v", "w", "x", "y", "z">>
    IN  IF \E k \in 1..Len(UpperChars) : UpperChars[k] = c
        THEN LowerChars[CHOOSE k \in 1..Len(UpperChars) : UpperChars[k] = c]
        ELSE c

\* str.lower()
Lower(x) == [k \in 1..Len(x) |-> LowerChar(x[k])]

\* needle in hay
Contains(hay, needle) ==
    \E k \in 1..(Len(hay) - Len(needle) + 1) :
        SubSeq(hay, k, k + Len(needle) - 1) = needle

-----------------------------------------------------------------------------
(* Results of calls: a value, or a raised exception with its message.      *)

NoRet == [kind |-> "none", msg |-> "", val |-> PyNone]
Ok(v) == [kind |-> "ok", msg |-> "", val |-> v]
Raise(kind, msg) == [kind |-> kind, msg |-> msg, val |-> PyNone]

\* isinstance(err, RainsoftApiError): the base class and its two subclasses
IsRainsoftApiError(r) == r.kind \in {"ApiError", "AuthError", "ConnectionError"}

-----------------------------------------------------------------------------
(* The vendor server: the answers an HTTP exchange can get.                *)

\* the texts the vendor sends: status names and location names
Txt(name) ==
    CASE name = "Normal" -> <<"N", "o", "r", "m", "a", "l">>
      [] name = "Regenerating" -> <<"R", "e", "g", "e", "n", "e", "r", "a", "t", "i", "n", "g">>
      [] name = "Ready" -> <<"R", "e", "a", "d", "y">>
      [] name = "NORMAL" -> <<"N", "O", "R", "M", "A", "L">>
      [] name = "REGEN" -> <<"R", "E", "G", "E", "N">>
      [] name = "REGENERATION" -> <<"R", "E", "G", "E", "N", "E", "R", "A", "T", "I", "O", "N">>
      [] name = "Home" -> <<"H", "o", "m", "e">>
      [] OTHER -> <<"C", "a", "b", "i", "n">>

\* An entry of a location's "devices" list in the /locations response.
RawDevice(id, name, salt, cap, status, regen) ==
    [id |-> id, name |-> name, model |-> Missing, serialNumber |-> Missing,
     saltLbs |-> salt, capacityRemaining |-> cap, systemStatusName |-> status,
     regenTime |-> regen, location_id |-> Missing, location_name |-> Missing]

\* the device entries of the catalogue.  Dup: the same string form of the id as A;
\* NoId: no "id" key at all; NullId: "id": null; Bad: a status that is not a
\* string; NullSalt: "saltLbs": null and a capacity that is not a number
Dev(n) ==
    CASE n = "A" -> RawDevice(PyInt(1), PyStr(<<"A">>), PyInt(50), PyInt(80),
                              PyStr(Txt("Normal")), Missing)
      [] n = "B" -> RawDevice(PyStr(<<"2">>), Missing, PyInt(19), Missing,
                              PyStr(Txt("Regenerating")), Missing)
      [] n = "Dup" -> RawDevice(PyStr(<<"1">>), PyStr(<<"D">>), PyInt(20), PyInt(5),
                                PyStr(Txt("Ready")), Missing)
      [] n = "NoId" -> RawDevice(Missing, PyStr(<<"N">>), PyInt(7), PyInt(7),
                                 PyStr(Txt("Normal")), Missing)
      [] n = "NullId" -> RawDevice(PyNone, Missing, Missing, Missing, Missing, Missing)
      [] n = "Bad" -> RawDevice(PyInt(3), Missing, PyInt(30), PyInt(30), PyInt(5), Missing)
      [] OTHER -> RawDevice(PyInt(4), Missing, PyNone, PyStr(<<"n", "/", "a">>),
                            PyStr(Txt("Ready")), Missing)

DeviceCatalogue == {Dev(n) : n \in {"A", "B", "Dup", "NoId", "NullId", "Bad", "NullSalt"}}

\* The device listings the server answers with, up to MaxDevices devices.
ListingCatalogue ==
    LET A == Dev("A")
        B == Dev("B")
        Dup == Dev("Dup")
        NoId == Dev("NoId")
        NullId == Dev("NullId")
        Bad == Dev("Bad")
    IN  {<<>>,
         <<A>>, <<B>>, <<Bad>>, <<Dev("NullSalt")>>,
         <<A, B>>, <<A, Dup>>, <<Dup, A>>,
         <<NoId, NullId>>, <<NoId, A>>, <<A, Bad>>,
         <<A, NoId, B>>, <<B, A, Dup>>,
         <<A, B, Dup, NoId>>, <<Bad, A, B, Dup>>}

DeviceLists == {l \in ListingCatalogue : Len(l) <= MaxDevices}

Location(id, name, hasDevices, devs) ==
    [id |-> id, name |-> name, hasDevices |-> hasDevices, devices |-> devs]

\* The value of "locationListData": the first device under "Home", a location
\* without a "devices" key, and the remaining devices under a nameless location.
LocationsOf(devs) ==
    IF devs = <<>>
    THEN {<<>>, <<Location(PyInt(10), PyStr(Txt("Home")), FALSE, <<>>)>>,
          <<Location(PyInt(10), PyStr(Txt("Home")), TRUE, <<>>)>>}
    ELSE {<<Location(PyInt(10), PyStr(Txt("Home")), TRUE, devs)>>,
          <<Location(PyInt(10), PyStr(Txt("Home")), TRUE, SubSeq(devs, 1, 1)),
            Location(PyInt(30), PyStr(Txt("Cabin")), FALSE, <<>>),
            Location(PyInt(20), Missing, TRUE, SubSeq(devs, 2, Len(devs)))>>}

LocationLists == UNION {LocationsOf(devs) : devs \in DeviceLists}

T1 == PyStr(<<"t", "1">>)
T2 == PyStr(<<"t", "2">>)

\* A parsed response body; valid = FALSE is a body that is not JSON.
\* locs is "missing", "null" or "list" for the "locationListData" key.
\* The object under "device" in the /device/{id} response.
StatusDevice(id, salt, cap, status, last, next) ==
    [id |-> id, name |-> Missing, model |-> Missing, serial_number |-> Missing,
     firmware_version |-> Missing, salt_level |-> salt, capacity_remaining |-> cap,
     system_status_name |-> status, last_regeneration_date |-> last,
     next_regeneration_time |-> next, dealer_name |-> Missing,
     dealer_phone |-> Missing, dealer_email |-> Missing]

NoStatusDevice == StatusDevice(Missing, Missing, Missing, Missing, Missing, Missing)

Body(valid, tok, id, locs, list) ==
    [valid |-> valid, token |-> tok, id |-> id, locs |-> locs, list |-> list,
     hasDev |-> FALSE, dev |-> NoStatusDevice]

DeviceBody(d) ==
    [Body(TRUE, Missing, Missing, "missing", <<>>) EXCEPT !.hasDev = TRUE, !.dev = d]

EmptyBody == Body(TRUE, Missing, Missing, "missing", <<>>)
NotJson == Body(FALSE, Missing, Missing, "missing", <<>>)

\* login answers: not JSON, no token field, a token, and "authentication_token": null
LoginBodies == {NotJson, EmptyBody} \cup
               {Body(TRUE, t, Missing, "missing", <<>>) : t \in {T1, T2, PyNone}}
CustomerBodies == {NotJson, EmptyBody} \cup
                  {Body(TRUE, Missing, i, "missing", <<>>) : i \in {PyInt(7), PyStr(<<"c", "8">>)}}
LocationsBodies == {NotJson, EmptyBody, Body(TRUE, Missing, Missing, "null", <<>>)} \cup
                   {Body(TRUE, Missing, Missing, "list", l) : l \in LocationLists}

\* the values a numeric field of the device object comes with
NumericFieldValues ==
    {Missing, PyNone, PyInt(40), PyInt(0 - 3),
     PyStr(<<"7", "5">>), PyStr(<<" ", "1", "2", " ">>), PyStr(<<"-", "8">>),
     PyStr(<<"4", ".", "5">>), PyStr(<<"n", "/", "a">>), PyStr(<<>>),
     PyFloat(3, <<"7">>), PyFloat(0 - 2, <<"5">>), PyBool(TRUE), PyList, PyNaN,
     PyInf(1), PyInf(0 - 1)}

DeviceBodies ==
    {NotJson, EmptyBody,
     DeviceBody(StatusDevice(PyInt(1), PyInt(40), PyStr(<<"7", "5">>), PyStr(Txt("Regenerating")),
                             Missing, Missing)),
     DeviceBody(StatusDevice(PyInt(1), PyStr(<<"n", "/", "a">>), PyNone, Missing,
                             Missing, Missing))}
    \cup {DeviceBody(StatusDevice(PyInt(1), v, PyInt(80), PyStr(Txt("Normal")), Missing, Missing)) :
             v \in NumericFieldValues}
    \cup {DeviceBody(StatusDevice(PyInt(1), PyInt(50), v, PyStr(Txt("Normal")), Missing, Missing)) :
             v \in {PyFloat(3, <<"7">>), PyInf(1)}}

BodiesOf(ep) ==
    CASE ep = "/login" -> LoginBodies
      [] ep = "/customer" -> CustomerBodies
      [] ep = "/locations" -> LocationsBodies
      [] ep = "/device" -> DeviceBodies
      [] OTHER -> {NotJson, EmptyBody}

ErrorStatuses == {400, 401, 403, 404, 500, 503}

\* err: "none" (a response arrived), "client" (aiohttp.ClientError) or
\* "timeout" (asyncio.TimeoutError).
Response(err, status, body) == [err |-> err, status |-> status, body |-> body]

Responses(ep) ==
    {Response("client", 0, EmptyBody), Response("timeout", 0, EmptyBody)}
    \cup {Response("none", st, EmptyBody) : st \in ErrorStatuses}
    \cup {Response("none", 200, b) : b \in BodiesOf(ep)}

-----------------------------------------------------------------------------
(* Call stack *)

\* a coroutine at position pc; method, ep, path and auth are the arguments of
\* _request, arg is the device id of get_device_status or the e-mail address
\* given to the config flow
Frame(fn, pc) ==
    [fn |-> fn, pc |-> pc, method |-> "", ep |-> "", path |-> <<>>, auth |-> FALSE,
     arg |-> PyNone]

Top == stack[Len(stack)]
Running(fn, pc) == stack # <<>> /\ Top.fn = fn /\ Top.pc = pc
Returned == ret.kind # "none"

\* the running coroutine awaits `callee` and continues at pc `at`
Await(callee, at) ==
    /\ stack' = Append([stack EXCEPT ![Len(stack)].pc = at], callee)
    /\ ret' = NoRet

\* the running coroutine returns or raises `r`
Return(r) ==
    /\ stack' = SubSeq(stack, 1, Len(stack) - 1)
    /\ ret' = r

\* whether a call of _request is in progress
InRequest == \E k \in 1..Len(stack) : stack[k].fn = "_request"

\* the running coroutine awaits a call of _request; the log starts afresh unless
\* the call is the login of a request in progress
AwaitRequest(callee, at) ==
    /\ Await(callee, at)
    /\ log' = IF InRequest THEN log ELSE <<>>

\* (mutant) the listing is asked of the per-device status endpoint
RequestFramePerDevice(method, ep, path, auth) ==
    [Frame("_request", "send") EXCEPT !.method = method,
                                      !.ep = IF ep = "/locations" THEN "/device" ELSE ep,
                                      !.path = path, !.auth = auth]

\* self._request(method, f"{ep}/{path}", authenticated=auth)
RequestFrame(method, ep, path, auth) ==
    [Frame("_request", "send") EXCEPT !.method = method, !.ep = ep, !.path = path,
                                      !.auth = auth]

-----------------------------------------------------------------------------
(* RainsoftApiClient._request (api.py 249-355) *)

\* headers sent with the first request: the token header only when
\* `authenticated and self._token`
FirstHeader(auth, tok) == IF auth /\ Truthy(tok) THEN tok ELSE Missing

Exchange(frame, hdr, resp) ==
    [method |-> frame.method, ep |-> frame.ep, path |-> frame.path,
     hdr |-> hdr, err |-> resp.err, status |-> resp.status, body |-> resp.body]

\* (mutant) transport failures raised as the base RainsoftApiError
TransportErrorAsApiError(resp) ==
    IF resp.err = "client"
    THEN Raise("ApiError", "Connection failed")
    ELSE Raise("ApiError", "Request timeout")

\* except aiohttp.ClientError / asyncio.TimeoutError
TransportError(resp) ==
    IF resp.err = "client"
    THEN Raise("ConnectionError", "Connection failed")
    ELSE Raise("ConnectionError", "Request timeout")

\* return await response.json()
ParseJson(body) ==
    IF body.valid THEN Ok(body) ELSE Raise("ApiError", "Invalid JSON response")

\* (mutant) `> 500` where the code has `>= 500`
StatusOutcomeAbove500(status, ep, body) ==
    IF status = 401 THEN Raise("AuthError", "Unauthorized - invalid credentials")
    ELSE IF status = 404 THEN Raise("ApiError", "Endpoint not found: " \o ep)
    ELSE IF status > 500 THEN Raise("ConnectionError", "Server error: " \o ToString(status))
    ELSE IF status # 200
         THEN Raise("ApiError", "API request failed with status " \o ToString(status))
    ELSE ParseJson(body)

\* the status checks after the 400 branch, then the JSON parse
StatusOutcome(status, ep, body) ==
    IF status = 401 THEN Raise("AuthError", "Unauthorized - invalid credentials")
    ELSE IF status = 404 THEN Raise("ApiError", "Endpoint not found: " \o ep)
    ELSE IF status >= 500 THEN Raise("ConnectionError", "Server error: " \o ToString(status))
    ELSE IF status # 200
         THEN Raise("ApiError", "API request failed with status " \o ToString(status))
    ELSE ParseJson(body)

\* (mutant) the retry classified by its status like a first response
RetryOutcomeByStatus(resp) ==
    IF resp.err # "none" THEN TransportError(resp)
    ELSE StatusOutcome(resp.status, "", resp.body)

\* outcome of the retried request
RetryOutcome(resp) ==
    IF resp.err # "none" THEN TransportError(resp)
    ELSE IF resp.status # 200
         THEN Raise("AuthError",
                    "Authentication retry failed with status " \o ToString(resp.status))
         ELSE ParseJson(resp.body)

\* (mutant) re-authenticate on every 400, the login's own included
NeedsReauthAlways(resp, auth) == resp.err = "none" /\ resp.status = 400

\* whether the first response starts the re-authentication
NeedsReauth(resp, auth) == resp.err = "none" /\ resp.status = 400 /\ auth

\* (mutant) a 401 drops the cached token
RequestTokenDropOn401(resp, old) ==
    IF resp.err = "none" /\ resp.status = 401 THEN PyNone ELSE old

\* self._token after the first exchange: _request reads the token and never
\* assigns it
RequestToken(resp, old) == old

\* first exchange of a request
RequestSend ==
    /\ Running("_request", "send")
    /\ \E resp \in Responses(Top.ep) :
          /\ log' = Append(log, Exchange(Top, FirstHeader(Top.auth, token), resp))
          /\ token' = RequestToken(resp, token)
          /\ IF NeedsReauth(resp, Top.auth)
             THEN Await(Frame("authenticate", "start"), "reauth")
             ELSE Return(IF resp.err # "none" THEN TransportError(resp)
                         ELSE StatusOutcome(resp.status, Top.ep, resp.body))
    /\ UNCHANGED <<entries, entities, options, update_interval,
                   customer_id, devices, data, last_update_success, loaded, op>>

\* `await self.authenticate()` inside the 400 branch has finished
RequestReauthDone ==
    /\ Running("_request", "reauth")
    /\ Returned
    /\ IF ret.kind = "ok"
       THEN /\ stack' = [stack EXCEPT ![Len(stack)].pc = "retry"]
            /\ ret' = NoRet
       ELSE Return(ret)
    /\ UNCHANGED <<entries, entities, options, update_interval,
                   token, customer_id, devices, data, last_update_success, loaded, log, op>>

\* the retry: headers[API_HEADER_AUTH] = self._token, then the same request
RequestRetry ==
    /\ Running("_request", "retry")
    /\ \E resp \in Responses(Top.ep) :
          /\ log' = Append(log, Exchange(Top, token, resp))
          /\ Return(RetryOutcome(resp))
    /\ UNCHANGED <<entries, entities, options, update_interval,
                   token, customer_id, devices, data, last_update_success, loaded, op>>

-----------------------------------------------------------------------------
(* RainsoftApiClient.authenticate (api.py 52-89) *)

AuthenticateStart ==
    /\ Running("authenticate", "start")
    /\ AwaitRequest(RequestFrame("POST", "/login", <<>>, FALSE), "wait")
    /\ UNCHANGED <<entries, entities, options, update_interval,
                   token, customer_id, devices, data, last_update_success, loaded, op>>

\* (mutant) without `except RainsoftConnectionError: raise`
AuthenticateResultWrapAll(r) ==
    CASE r.kind = "AuthError" -> r
      [] r.kind = "ok" ->
            IF r.val.token.t = "missing"
            THEN Raise("AuthError", "Invalid response from login endpoint")
            ELSE Ok(TRUE)
      [] OTHER -> Raise("AuthError", "Authentication failed: " \o r.msg)

\* (mutant) without the final `except Exception`
AuthenticateResultPassApiError(r) ==
    CASE r.kind = "ok" ->
            IF r.val.token.t = "missing"
            THEN Raise("AuthError", "Invalid response from login endpoint")
            ELSE Ok(TRUE)
      [] OTHER -> r

\* what authenticate returns or raises, given what _request gave
AuthenticateResult(r) ==
    CASE r.kind = "ConnectionError" -> r
      [] r.kind = "AuthError" -> r
      [] r.kind = "ok" ->
            IF r.val.token.t = "missing"
            THEN Raise("AuthError", "Invalid response from login endpoint")
            ELSE Ok(TRUE)
      [] OTHER -> Raise("AuthError", "Authentication failed: " \o r.msg)

\* (mutant) the token of the response is never stored
AuthenticateTokenKeep(r, old) == old

\* (mutant) a failed login clears the token
AuthenticateTokenClearOnFailure(r, old) ==
    IF AuthenticateResult(r).kind = "ok" THEN r.val.token ELSE PyNone

\* self._token after authenticate
AuthenticateToken(r, old) ==
    IF AuthenticateResult(r).kind = "ok" THEN r.val.token ELSE old

AuthenticateDone ==
    /\ Running("authenticate", "wait")
    /\ Returned
    /\ token' = AuthenticateToken(ret, token)
    /\ Return(AuthenticateResult(ret))
    /\ UNCHANGED <<entries, entities, options, update_interval,
                   customer_id, devices, data, last_update_success, loaded, log, op>>

-----------------------------------------------------------------------------
(* RainsoftApiClient.get_customer_id (api.py 91-113) *)

GetCustomerIdStart ==
    /\ Running("get_customer_id", "start")
    /\ IF ~Truthy(token)
       THEN Return(Raise("AuthError", "Not authenticated")) /\ UNCHANGED log
       ELSE AwaitRequest(RequestFrame("GET", "/customer", <<>>, TRUE), "wait")
    /\ UNCHANGED <<entries, entities, options, update_interval,
                   token, customer_id, devices, data, last_update_success, loaded, op>>

\* (mutant) the id is cached as it came, without str()
GetCustomerIdResultRawId(r) ==
    IF r.kind # "ok" THEN r
    ELSE IF r.val.id.t = "missing"
         THEN Raise("ApiError", "Invalid response from customer endpoint")
         ELSE Ok(r.val.id)

GetCustomerIdResult(r) ==
    IF r.kind # "ok" THEN r
    ELSE IF r.val.id.t = "missing"
         THEN Raise("ApiError", "Invalid response from customer endpoint")
         ELSE Ok(PyStr(Str(r.val.id)))

GetCustomerIdDone ==
    /\ Running("get_customer_id", "wait")
    /\ Returned
    /\ customer_id' = IF GetCustomerIdResult(ret).kind = "ok"
                      THEN GetCustomerIdResult(ret).val ELSE customer_id
    /\ Return(GetCustomerIdResult(ret))
    /\ UNCHANGED <<entries, entities, options, update_interval,
                   token, devices, data, last_update_success, loaded, log, op>>

-----------------------------------------------------------------------------
(* RainsoftApiClient.get_devices (api.py 115-146) *)

RECURSIVE TagAll(_, _)
\* device["location_id"] = location.get("id"); device["location_name"] = ...
TagAll(devs, loc) ==
    IF devs = <<>> THEN <<>>
    ELSE <<[devs[1] EXCEPT !.location_id = Get(loc.id), !.location_name = Get(loc.name)]>>
         \o TagAll(Tail(devs), loc)

RECURSIVE FlattenReversed(_)
\* (mutant) the devices of later locations come first
FlattenReversed(locs) ==
    IF locs = <<>> THEN <<>>
    ELSE FlattenReversed(Tail(locs))
         \o (IF locs[1].hasDevices THEN TagAll(locs[1].devices, locs[1]) ELSE <<>>)

\* (mutant) the loop over the locations left after the first one
FlattenFirstLocationOnly(locs) ==
    IF locs = <<>> THEN <<>>
    ELSE IF locs[1].hasDevices THEN TagAll(locs[1].devices, locs[1]) ELSE <<>>

RECURSIVE Flatten(_)
\* the two nested loops over locations and their devices
Flatten(locs) ==
    IF locs = <<>> THEN <<>>
    ELSE (IF locs[1].hasDevices THEN TagAll(locs[1].devices, locs[1]) ELSE <<>>)
         \o Flatten(Tail(locs))

\* (mutant) a response without "locationListData" is an empty listing
GetDevicesResultLenient(r) ==
    IF r.kind # "ok" THEN r
    ELSE CASE r.val.locs = "missing" -> Ok(<<>>)
           [] r.val.locs = "null" ->
                 Raise("TypeError", "'NoneType' object is not iterable")
           [] OTHER -> Ok(Flatten(r.val.list))

GetDevicesResult(r) ==
    IF r.kind # "ok" THEN r
    ELSE CASE r.val.locs = "missing" ->
                 Raise("ApiError", "Invalid response from locations endpoint")
           [] r.val.locs = "null" ->
                 Raise("TypeError", "'NoneType' object is not iterable")
           [] OTHER -> Ok(Flatten(r.val.list))

GetDevicesStart ==
    /\ Running("get_devices", "start")
    /\ IF ~Truthy(customer_id)
       THEN Await(Frame("get_customer_id", "start"), "resolved") /\ UNCHANGED log
       ELSE AwaitRequest(RequestFrame("GET", "/locations", Str(customer_id), TRUE), "wait")
    /\ UNCHANGED <<entries, entities, options, update_interval,
                   token, customer_id, devices, data, last_update_success, loaded, op>>

GetDevicesResolved ==
    /\ Running("get_devices", "resolved")
    /\ Returned
    /\ IF ret.kind = "ok"
       THEN AwaitRequest(RequestFrame("GET", "/locations", Str(customer_id), TRUE), "wait")
       ELSE Return(ret) /\ UNCHANGED log
    /\ UNCHANGED <<entries, entities, options, update_interval,
                   token, customer_id, devices, data, last_update_success, loaded, op>>

GetDevicesDone ==
    /\ Running("get_devices", "wait")
    /\ Returned
    /\ Return(GetDevicesResult(ret))
    /\ UNCHANGED <<entries, entities, options, update_interval,
                   token, customer_id, devices, data, last_update_success, loaded, log, op>>

-----------------------------------------------------------------------------
(* RainsoftApiClient._safe_int and _parse_device_data (api.py 191-247) *)

DigitChars == {"0", "1", "2", "3", "4", "5", "6", "7", "8", "9"}
DigitValue(c) == CHOOSE n \in 0..9 : Digit(n) = c

RECURSIVE DigitsValue(_)
DigitsValue(x) ==
    IF x = <<>> THEN 0 ELSE DigitsValue(SubSeq(x, 1, Len(x) - 1)) * 10 + DigitValue(x[Len(x)])

RECURSIVE Strip(_)
\* str.strip() for blanks
Strip(x) ==
    IF x # <<>> /\ x[1] = " " THEN Strip(Tail(x))
    ELSE IF x # <<>> /\ x[Len(x)] = " " THEN Strip(SubSeq(x, 1, Len(x) - 1))
    ELSE x

\* int(str) accepts blanks around an optionally signed run of digits
IntLiteral(x) ==
    LET y == Strip(x)
        body == IF y # <<>> /\ y[1] \in {"+", "-"} THEN Tail(y) ELSE y
    IN  [ok |-> body # <<>> /\ \A k \in 1..Len(body) : body[k] \in DigitChars,
         neg |-> y # <<>> /\ y[1] = "-",
         digits |-> body]

\* int(value): the integer, or the exception int() raises
IntOf(v) ==
    CASE v.t \in {"int", "bool", "float"} -> Ok(PyInt(v.i))
      [] v.t = "str" ->
            LET lit == IntLiteral(v.s)
            IN  IF ~lit.ok THEN Raise("ValueError", "invalid literal for int() with base 10")
                ELSE Ok(PyInt(IF lit.neg THEN 0 - DigitsValue(lit.digits)
                              ELSE DigitsValue(lit.digits)))
      [] v.t = "nan" -> Raise("ValueError", "cannot convert float NaN to integer")
      [] v.t = "inf" -> Raise("OverflowError", "cannot convert float infinity to integer")
      [] OTHER -> Raise("TypeError", "int() argument must be a string or a real number")

\* _safe_int(value), default 0: `except (ValueError, TypeError)` gives the
\* default, any other exception of int() leaves the function
SafeInt(v) ==
    IF v.t \in {"none", "missing"} THEN Ok(PyInt(0))
    ELSE IF IntOf(v).kind \in {"ValueError", "TypeError"} THEN Ok(PyInt(0))
    ELSE IntOf(v)

\* "regenerat" in system_status.lower(), or the exception .lower() raises
S_regenerat == <<"r", "e", "g", "e", "n", "e", "r", "a", "t">>

\* (mutant) the substring looked for in the status as it is written
RegenerationActiveCaseSensitive(status) ==
    IF ~Truthy(status) THEN Ok(FALSE)
    ELSE IF status.t # "str"
         THEN Raise("AttributeError", "'int' object has no attribute 'lower'")
         ELSE Ok(Contains(status.s, S_regenerat))

\* "regenerat" in status.lower() if status else ""
RegenerationActive(status) ==
    IF ~Truthy(status) THEN Ok(FALSE)
    ELSE IF status.t # "str"
         THEN Raise("AttributeError", "'int' object has no attribute 'lower'")
         ELSE Ok(Contains(Lower(status.s), S_regenerat))

S_unknown == <<"u", "n", "k", "n", "o", "w", "n">>
S_DefaultName == <<"R", "a", "i", "n", "s", "o", "f", "t", " ", "W", "a", "t", "e", "r", " ",
                   "S", "o", "f", "t", "e", "n", "e", "r">>

ParseDeviceData(d) ==
    LET salt == SafeInt(Get(d.salt_level))
        capacity == SafeInt(Get(d.capacity_remaining))
        status == GetOr(d.system_status_name, PyStr(S_unknown))
        active == RegenerationActive(status)
    IN  IF salt.kind # "ok" THEN salt
        ELSE IF capacity.kind # "ok" THEN capacity
        ELSE IF active.kind # "ok" THEN active
        ELSE Ok([device_id |-> Get(d.id),
                 device_name |-> GetOr(d.name, PyStr(S_DefaultName)),
                 model |-> Get(d.model),
                 serial_number |-> Get(d.serial_number),
                 firmware_version |-> Get(d.firmware_version),
                 salt_level |-> salt.val,
                 capacity_remaining |-> capacity.val,
                 system_status |-> status,
                 last_regeneration |-> Get(d.last_regeneration_date),
                 next_regeneration |-> Get(d.next_regeneration_time),
                 dealer_name |-> Get(d.dealer_name),
                 dealer_phone |-> Get(d.dealer_phone),
                 dealer_email |-> Get(d.dealer_email),
                 regeneration_active |-> active.val])

-----------------------------------------------------------------------------
(* RainsoftApiClient.get_device_status and force_update (api.py 148-189) *)

GetDeviceStatusStart ==
    /\ Running("get_device_status", "start")
    /\ AwaitRequest(RequestFrame("GET", "/device", Str(Top.arg), TRUE), "wait")
    /\ UNCHANGED <<entries, entities, options, update_interval,
                   token, customer_id, devices, data, last_update_success, loaded, op>>

GetDeviceStatusResult(r) ==
    IF r.kind # "ok" THEN r
    ELSE IF ~r.val.hasDev
         THEN Raise("ApiError", "Invalid response from device endpoint")
         ELSE ParseDeviceData(r.val.dev)

GetDeviceStatusDone ==
    /\ Running("get_device_status", "wait")
    /\ Returned
    /\ Return(GetDeviceStatusResult(ret))
    /\ UNCHANGED <<entries, entities, options, update_interval,
                   token, customer_id, devices, data, last_update_success, loaded, log, op>>

ForceUpdateStart ==
    /\ Running("force_update", "start")
    /\ AwaitRequest(RequestFrame("GET", "/forceupdate", <<>>, TRUE), "wait")
    /\ UNCHANGED <<entries, entities, options, update_interval,
                   token, customer_id, devices, data, last_update_success, loaded, op>>

\* (mutant) `except RainsoftConnectionError` in place of `except Exception`
ForceUpdateResultConnectionOnly(r) ==
    IF r.kind = "ok" THEN Ok(TRUE)
    ELSE IF r.kind = "ConnectionError" THEN Ok(FALSE)
    ELSE r

\* try: ...; return True / except Exception: return False
ForceUpdateResult(r) == IF r.kind = "ok" THEN Ok(TRUE) ELSE Ok(FALSE)

ForceUpdateDone ==
    /\ Running("force_update", "wait")
    /\ Returned
    /\ Return(ForceUpdateResult(ret))
    /\ UNCHANGED <<entries, entities, options, update_interval,
                   token, customer_id, devices, data, last_update_success, loaded, log, op>>

-----------------------------------------------------------------------------
(* RainsoftDataUpdateCoordinator (coordinator.py) *)

\* a dict as the sequence of its items, in insertion order
DictKeys(d) == {d[k].key : k \in 1..Len(d)}
DictHas(d, key) == \E k \in 1..Len(d) : d[k].key = key
DictGet(d, key) == d[CHOOSE k \in 1..Len(d) : d[k].key = key].val

\* (mutant) a key that is already there keeps its value
DictSetKeepFirst(d, key, val) ==
    IF DictHas(d, key) THEN d ELSE Append(d, [key |-> key, val |-> val])

\* d[key] = val
DictSet(d, key, val) ==
    IF DictHas(d, key)
    THEN [k \in 1..Len(d) |-> IF d[k].key = key THEN [key |-> key, val |-> val] ELSE d[k]]
    ELSE Append(d, [key |-> key, val |-> val])

\* _normalize_device_data(device)
NormalizeDeviceData(d) ==
    LET status == GetOr(d.systemStatusName, PyStr(S_unknown))
        active == RegenerationActive(status)
    IN  IF active.kind # "ok" THEN active
        ELSE Ok([id |-> Get(d.id),
                 device_name |-> GetOr(d.name, PyStr(S_DefaultName)),
                 model |-> Get(d.model),
                 serial_number |-> Get(d.serialNumber),
                 firmware_version |-> PyNone,
                 salt_level |-> GetOr(d.saltLbs, PyInt(0)),
                 capacity_remaining |-> GetOr(d.capacityRemaining, PyInt(0)),
                 system_status |-> status,
                 last_regeneration |-> PyNone,
                 next_regeneration |-> Get(d.regenTime),
                 location_id |-> Get(d.location_id),
                 location_name |-> Get(d.location_name),
                 regeneration_active |-> active.val])

\* (mutant) `if "id" not in device: continue`
UsableIdIfPresent(d) == d.id.t # "missing"

\* `if not device_id: continue`
UsableId(d) == Truthy(Get(d.id))

RECURSIVE Aggregate(_, _)
\* the loop over the devices and the check that follows it; device_data is the
\* dict built so far.  Gives the result and the dict as it stood at the end.
Aggregate(devs, device_data) ==
    IF devs = <<>>
    THEN [res |-> IF device_data = <<>>
                  THEN Raise("UpdateFailed", "No device data available")
                  ELSE Ok(device_data),
          built |-> device_data]
    ELSE IF ~UsableId(devs[1]) THEN Aggregate(Tail(devs), device_data)
    ELSE LET normalized == NormalizeDeviceData(devs[1])
         IN  IF normalized.kind # "ok"
             THEN [res |-> normalized, built |-> device_data]
             ELSE Aggregate(Tail(devs),
                            DictSet(device_data, Str(devs[1].id), normalized.val))

\* (mutant) without the final `except Exception`
ClassifyNoCatchAll(r) ==
    IF r.kind = "ok" THEN r
    ELSE IF r.kind = "AuthError" THEN Raise("ConfigEntryAuthFailed", "Authentication failed")
    ELSE IF r.kind = "ConnectionError" THEN Raise("UpdateFailed", "Connection error: " \o r.msg)
    ELSE IF r.kind = "ApiError" THEN Raise("UpdateFailed", "API error: " \o r.msg)
    ELSE r

\* the except clauses of _async_update_data, in their order
Classify(r) ==
    IF r.kind = "ok" THEN r
    ELSE IF r.kind = "AuthError" THEN Raise("ConfigEntryAuthFailed", "Authentication failed")
    ELSE IF r.kind = "ConnectionError" THEN Raise("UpdateFailed", "Connection error: " \o r.msg)
    ELSE IF r.kind = "ApiError" THEN Raise("UpdateFailed", "API error: " \o r.msg)
    ELSE Raise("UpdateFailed", "Unexpected error: " \o r.msg)

\* (mutant) without the early `return {}` for an empty listing
UpdateDataResultNoEmptyCheck(r) ==
    IF r.kind # "ok" THEN Classify(r)
    ELSE Classify(Aggregate(r.val, <<>>).res)

\* what _async_update_data returns or raises, given what get_devices gave
UpdateDataResult(r) ==
    IF r.kind # "ok" THEN Classify(r)
    ELSE IF r.val = <<>> THEN Ok(<<>>)
    ELSE Classify(Aggregate(r.val, <<>>).res)

\* self.devices after _async_update_data
UpdateDataDevices(r, old) == IF r.kind = "ok" /\ r.val # <<>> THEN r.val ELSE old

\* (mutant) the dict is built in coordinator.data itself
UpdateDataSnapshotInPlace(r, old) ==
    IF r.kind = "ok" /\ r.val # <<>>
    THEN [set |-> TRUE, items |-> Aggregate(r.val, <<>>).built]
    ELSE old

\* coordinator.data after _async_update_data: the method builds a local dict and
\* never assigns coordinator.data
UpdateDataSnapshot(r, old) == old

UpdateDataStart ==
    /\ Running("_async_update_data", "start")
    /\ Await(Frame("get_devices", "start"), "wait")
    /\ UNCHANGED <<entries, entities, options, update_interval,
                   token, customer_id, devices, data, last_update_success, loaded, log, op>>

UpdateDataDone ==
    /\ Running("_async_update_data", "wait")
    /\ Returned
    /\ devices' = UpdateDataDevices(ret, devices)
    /\ data' = UpdateDataSnapshot(ret, data)
    /\ Return(UpdateDataResult(ret))
    /\ UNCHANGED <<entries, entities, options, update_interval,
                   token, customer_id, last_update_success, loaded, log, op>>

-----------------------------------------------------------------------------
(* The host's DataUpdateCoordinator: one refresh calls _async_update_data,  *)
(* commits what it returns and records whether it succeeded.               *)

NoSnapshot == [set |-> FALSE, items |-> <<>>]
Snapshot(items) == [set |-> TRUE, items |-> items]

HostCommit(r, old) == IF r.kind = "ok" THEN Snapshot(r.val) ELSE old

HostRefreshStart ==
    /\ Running("_async_refresh", "start")
    /\ Await(Frame("_async_update_data", "start"), "wait")
    /\ UNCHANGED <<entries, entities, options, update_interval,
                   token, customer_id, devices, data, last_update_success, loaded, log, op>>

HostRefreshDone ==
    /\ Running("_async_refresh", "wait")
    /\ Returned
    /\ data' = HostCommit(ret, data)
    /\ last_update_success' = (ret.kind = "ok")
    /\ Return(ret)
    /\ UNCHANGED <<entries, entities, options, update_interval,
                   token, customer_id, devices, loaded, log, op>>

-----------------------------------------------------------------------------
(* async_setup_entry and async_unload_entry (__init__.py) *)

DEFAULT_SCAN_INTERVAL == 2
MIN_SCAN_INTERVAL == 1
MAX_SCAN_INTERVAL == 4

\* entry.options.get(CONF_SCAN_INTERVAL, DEFAULT_SCAN_INTERVAL), in hours
ScanIntervalHours(opts) == GetOr(opts, PyInt(DEFAULT_SCAN_INTERVAL)).i

\* (mutant) without `except RainsoftApiError`
SetupClientErrorAuthOnly(r) ==
    IF r.kind = "AuthError" THEN Raise("ConfigEntryAuthFailed", "Authentication failed")
    ELSE r

\* the except clauses around authenticate / get_customer_id
SetupClientError(r) ==
    IF r.kind = "AuthError" THEN Raise("ConfigEntryAuthFailed", "Authentication failed")
    ELSE IF IsRainsoftApiError(r) THEN Raise("ConfigEntryNotReady", "API error: " \o r.msg)
    ELSE r

\* the except clauses around the first refresh
SetupRefreshError(r) ==
    IF r.kind = "ConfigEntryAuthFailed" THEN r
    ELSE Raise("ConfigEntryNotReady", "Error fetching data: " \o r.msg)

\* api = RainsoftApiClient(session, email, password); await api.authenticate()
SetupEntryStart ==
    /\ Running("async_setup_entry", "start")
    /\ token' = PyNone
    /\ customer_id' = PyNone
    /\ Await(Frame("authenticate", "start"), "authenticated")
    /\ UNCHANGED <<entries, entities, options, update_interval,
                   devices, data, last_update_success, loaded, log, op>>

SetupEntryAuthenticated ==
    /\ Running("async_setup_entry", "authenticated")
    /\ Returned
    /\ IF ret.kind = "ok"
       THEN Await(Frame("get_customer_id", "start"), "resolved")
       ELSE Return(SetupClientError(ret))
    /\ UNCHANGED <<entries, entities, options, update_interval,
                   token, customer_id, devices, data, last_update_success, loaded, log, op>>

\* coordinator = RainsoftDataUpdateCoordinator(...); first refresh
SetupEntryResolved ==
    /\ Running("async_setup_entry", "resolved")
    /\ Returned
    /\ IF ret.kind = "ok"
       THEN /\ devices' = <<>>
            /\ data' = NoSnapshot
            /\ last_update_success' = TRUE
            /\ update_interval' = ScanIntervalHours(options)
            /\ Await(Frame("_async_refresh", "start"), "refreshed")
       ELSE /\ Return(SetupClientError(ret))
            /\ UNCHANGED <<devices, data, last_update_success, update_interval>>
    /\ UNCHANGED <<token, customer_id, loaded, entries, entities, log, op, options>>

\* (mutant) the unique id without the device id
UniqueIdKeyOnly(device_id, sensor_key) == sensor_key

\* f"{device_id}_{sensor_key}"
UniqueId(device_id, sensor_key) == device_id \o <<"_">> \o sensor_key

\* the sensor_key of the entity classes of sensor.py
SensorKeys ==
    {<<"s", "a", "l", "t", "_", "l", "e", "v", "e", "l">>,
     <<"c", "a", "p", "a", "c", "i", "t", "y", "_", "r", "e", "m", "a", "i", "n", "i", "n", "g">>,
     <<"l", "a", "s", "t", "_", "r", "e", "g", "e", "n", "e", "r", "a", "t", "i", "o", "n">>,
     <<"n", "e", "x", "t", "_", "r", "e", "g", "e", "n", "e", "r", "a", "t", "i", "o", "n">>}

\* the sensor_key of the entity classes of binary_sensor.py
BinarySensorKeys ==
    {<<"s", "y", "s", "t", "e", "m", "_", "a", "l", "e", "r", "t">>,
     <<"r", "e", "g", "e", "n", "e", "r", "a", "t", "i", "o", "n", "_", "a", "c", "t", "i", "v", "e">>,
     <<"s", "a", "l", "t", "_", "l", "o", "w">>}

\* the entities the async_setup_entry of the two platforms add:
\* `for device_id in coordinator.data`, one entity of each class
PlatformEntities(snapshot) ==
    {[platform |-> "sensor", device_id |-> id, key |-> k, unique_id |-> UniqueId(id, k)] :
        id \in DictKeys(snapshot.items), k \in SensorKeys}
    \cup
    {[platform |-> "binary_sensor", device_id |-> id, key |-> k,
      unique_id |-> UniqueId(id, k)] :
        id \in DictKeys(snapshot.items), k \in BinarySensorKeys}

\* hass.data[DOMAIN][entry.entry_id] = coordinator, then
\* async_forward_entry_setups(entry, PLATFORMS)
SetupEntryRefreshed ==
    /\ Running("async_setup_entry", "refreshed")
    /\ Returned
    /\ loaded' = (ret.kind = "ok")
    /\ entities' = IF ret.kind = "ok" THEN PlatformEntities(data) ELSE entities
    /\ Return(IF ret.kind = "ok" THEN Ok(TRUE) ELSE SetupRefreshError(ret))
    /\ UNCHANGED <<entries, options, update_interval,
                   token, customer_id, devices, data, last_update_success, log, op>>

-----------------------------------------------------------------------------
(* Top-level operations *)

Idle == stack = <<>>

Start(name, frame) ==
    /\ Idle
    /\ stack' = <<frame>>
    /\ ret' = NoRet
    /\ log' = <<>>
    /\ op' = name

\* the host sets the entry up
SetupEntry ==
    /\ ~loaded
    /\ Start("async_setup_entry", Frame("async_setup_entry", "start"))
    /\ UNCHANGED <<entries, entities, options, update_interval,
                   token, customer_id, devices, data, last_update_success, loaded>>

\* async_unload_entry: async_unload_platforms removes the entities, then
\* hass.data[DOMAIN].pop(entry.entry_id)
UnloadEntry ==
    /\ Idle
    /\ loaded
    /\ loaded' = FALSE
    /\ entities' = {}
    /\ UNCHANGED <<entries, options, update_interval,
                   token, customer_id, devices, data, last_update_success,
                   stack, ret, log, op>>

\* the host's scheduler starts a poll cycle
Refresh ==
    /\ loaded
    /\ Start("refresh", Frame("_async_refresh", "start"))
    /\ UNCHANGED <<entries, entities, options, update_interval,
                   token, customer_id, devices, data, last_update_success, loaded>>

-----------------------------------------------------------------------------
(* RainsoftOptionsFlow (config_flow.py) and update_listener (__init__.py) *)

\* what the user enters for the scan interval; Missing: the field is left out
ScanIntervalInputs ==
    {Missing, PyInt(0), PyInt(1), PyInt(3), PyInt(4), PyInt(5), PyInt(0 - 1),
     PyStr(<<"3">>), PyStr(<<"a", "b", "c">>), PyFloat(2, <<"5">>), PyFloat(4, <<"5">>)}

\* (mutant) the schema without vol.Range
ValidateScanIntervalNoRange(input, opts) ==
    LET coerced == IntOf(GetOr(input, GetOr(opts, PyInt(DEFAULT_SCAN_INTERVAL))))
    IN  IF coerced.kind # "ok" THEN Raise("Invalid", "expected int")
        ELSE coerced

\* the data schema of the form applied to the input: the default for a field
\* left out is the current interval, then vol.Coerce(int) and
\* vol.Range(min=MIN_SCAN_INTERVAL, max=MAX_SCAN_INTERVAL)
ValidateScanInterval(input, opts) ==
    LET coerced == IntOf(GetOr(input, GetOr(opts, PyInt(DEFAULT_SCAN_INTERVAL))))
    IN  IF coerced.kind # "ok" THEN Raise("Invalid", "expected int")
        ELSE IF coerced.val.i < MIN_SCAN_INTERVAL
             THEN Raise("Invalid", "value must be at least " \o ToString(MIN_SCAN_INTERVAL))
        ELSE IF coerced.val.i > MAX_SCAN_INTERVAL
             THEN Raise("Invalid", "value must be at most " \o ToString(MAX_SCAN_INTERVAL))
        ELSE coerced

\* the user submits the options form.  Input the schema rejects changes nothing;
\* accepted input becomes the entry's options (async_create_entry), and when that
\* changes the options of a loaded entry, update_listener reloads the entry:
\* it is unloaded and set up again.
OptionsFlowSubmit ==
    /\ Idle
    /\ \E input \in ScanIntervalInputs :
          LET r == ValidateScanInterval(input, options)
          IN  /\ options' = IF r.kind = "ok" THEN r.val ELSE options
              /\ log' = <<>>
              /\ IF r.kind = "ok" /\ r.val # options /\ loaded
                 THEN /\ loaded' = FALSE
                      /\ entities' = {}
                      /\ stack' = <<Frame("async_setup_entry", "start")>>
                      /\ ret' = NoRet
                      /\ op' = "async_setup_entry"
                 ELSE /\ ret' = r
                      /\ op' = "async_step_init"
                      /\ UNCHANGED <<loaded, entities, stack>>
    /\ UNCHANGED <<entries, token, customer_id, devices, data, last_update_success, update_interval>>

-----------------------------------------------------------------------------
(* The config flow (config_flow.py) *)

\* the e-mail addresses a user submits
EmailInputs ==
    {<<"a", "@", "b">>, <<"A", "@", "B">>, <<" ", "C", "@", "d", " ">>}

\* async_show_form(step_id="user", errors=errors), where error is errors["base"]
\* or "" when errors is empty
ShowForm(error) == [type |-> "form", error |-> error, email |-> <<>>]

\* async_create_entry(title=info["email"], data={CONF_EMAIL: info["email"], ...})
CreateEntry(email) == [type |-> "create_entry", error |-> "", email |-> email]

\* (mutant) without `except RainsoftConnectionError`
FlowErrorNoConnection(r) == IF r.kind = "AuthError" THEN "invalid_auth" ELSE "unknown"

\* the except clauses of async_step_user
FlowError(r) ==
    IF r.kind = "AuthError" THEN "invalid_auth"
    ELSE IF r.kind = "ConnectionError" THEN "cannot_connect"
    ELSE "unknown"

\* the host calls async_step_user: without user_input the form is shown, with
\* user_input validate_credentials is awaited
ConfigFlowUser ==
    /\ Idle
    /\ op' = "async_step_user"
    /\ log' = <<>>
    /\ \/ /\ ret' = Ok(ShowForm(""))
          /\ UNCHANGED stack
       \/ \E email \in EmailInputs :
             /\ ret' = NoRet
             /\ stack' = <<[Frame("async_step_user", "validated") EXCEPT !.arg = PyStr(email)],
                           [Frame("validate_credentials", "start") EXCEPT !.arg = PyStr(email)]>>
    /\ UNCHANGED <<entries, entities, options, update_interval,
                   token, customer_id, devices, data, last_update_success, loaded>>

\* api = RainsoftApiClient(session, email, password); await api.authenticate()
ValidateCredentialsStart ==
    /\ Running("validate_credentials", "start")
    /\ token' = PyNone
    /\ customer_id' = PyNone
    /\ Await(Frame("authenticate", "start"), "authenticated")
    /\ UNCHANGED <<entries, entities, options, update_interval,
                   devices, data, last_update_success, loaded, log, op>>

\* customer_id = await api.get_customer_id(); what authenticate raised goes on
\* to the caller
ValidateCredentialsAuthenticated ==
    /\ Running("validate_credentials", "authenticated")
    /\ Returned
    /\ IF ret.kind = "ok"
       THEN Await(Frame("get_customer_id", "start"), "resolved")
       ELSE Return(ret)
    /\ UNCHANGED <<entries, entities, options, update_interval,
                   token, customer_id, devices, data, last_update_success, loaded, log, op>>

\* return {"customer_id": customer_id, "email": email.lower().strip()}
ValidateCredentialsResolved ==
    /\ Running("validate_credentials", "resolved")
    /\ Returned
    /\ Return(IF ret.kind = "ok"
              THEN Ok([customer_id |-> ret.val, email |-> Strip(Lower(Top.arg.s))])
              ELSE ret)
    /\ UNCHANGED <<entries, entities, options, update_interval,
                   token, customer_id, devices, data, last_update_success, loaded, log, op>>

\* async_set_unique_id(info["email"]); _abort_if_unique_id_configured(), whose
\* AbortFlow is raised inside the try and caught by `except Exception`;
\* async_create_entry; after an exception the form is shown with errors
StepUserValidated ==
    /\ Running("async_step_user", "validated")
    /\ Returned
    /\ IF ret.kind # "ok"
       THEN /\ Return(Ok(ShowForm(FlowError(ret))))
            /\ UNCHANGED entries
       ELSE IF \E e \in entries : e.unique_id = ret.val.email
       THEN /\ Return(Ok(ShowForm(FlowError(Raise("AbortFlow", "already_configured")))))
            /\ UNCHANGED entries
       ELSE /\ Return(Ok(CreateEntry(ret.val.email)))
            /\ entries' = entries \cup {[unique_id |-> ret.val.email,
                                          title |-> ret.val.email,
                                          email |-> ret.val.email]}
    /\ UNCHANGED <<entities, options, update_interval,
                   token, customer_id, devices, data, last_update_success, loaded, log, op>>

ClientOperations == {"authenticate", "get_customer_id", "get_devices", "force_update"}

\* a caller invokes a method of the client
ClientCall ==
    /\ \/ \E fn \in ClientOperations : Start(fn, Frame(fn, "start"))
       \/ \E d \in {PyInt(1), PyStr(<<"2">>)} :
             Start("get_device_status", [Frame("get_device_status", "start") EXCEPT !.arg = d])
    /\ UNCHANGED <<entries, entities, options, update_interval,
                   token, customer_id, devices, data, last_update_success, loaded>>

-----------------------------------------------------------------------------
(* Entity projections (binary_sensor.py, sensor.py): what an entity shows of   *)
(* the committed snapshot for its device id.                                *)

S_normal == <<"n", "o", "r", "m", "a", "l">>

\* self.coordinator.data.get(self._device_id, {}).get(field, default)
DeviceField(snapshot, id, field, default) ==
    IF DictHas(snapshot.items, id)
    THEN GetOr(DictGet(snapshot.items, id)[field], default)
    ELSE default

\* (mutant) the status compared with "normal" as it is written
AlertIsOnCaseSensitive(snapshot, id) ==
    LET status == DeviceField(snapshot, id, "system_status", PyStr(S_normal))
    IN  IF ~Truthy(status) THEN Ok(FALSE)
        ELSE IF status.t # "str"
             THEN Raise("AttributeError", "object has no attribute 'lower'")
        ELSE Ok(status.s # S_normal)

\* RainsoftSystemAlertSensor.is_on
AlertIsOn(snapshot, id) ==
    LET status == DeviceField(snapshot, id, "system_status", PyStr(S_normal))
    IN  IF ~Truthy(status) THEN Ok(FALSE)
        ELSE IF status.t # "str"
             THEN Raise("AttributeError", "object has no attribute 'lower'")
        ELSE Ok(Lower(status.s) # S_normal)

\* RainsoftRegenerationSensor.is_on: data.get("regeneration_active", False)
RegenerationIsOn(snapshot, id) ==
    IF DictHas(snapshot.items, id)
    THEN Ok(DictGet(snapshot.items, id).regeneration_active)
    ELSE Ok(FALSE)

SALT_LOW_THRESHOLD == 20

\* `value < n` for a positive integer n: the comparison, or the TypeError of a
\* value that has no order with an int
LessThan(v, n) ==
    CASE v.t \in {"int", "bool", "float"} -> Ok(v.i < n)
      [] v.t = "inf" -> Ok(v.i < 0)
      [] v.t = "nan" -> Ok(FALSE)
      [] OTHER -> Raise("TypeError", "'<' not supported between instances of '"
                                     \o v.t \o "' and 'int'")

\* (mutant) `<=` where the code has `<`
SaltLowIsOnInclusive(snapshot, id) ==
    LessThan(DeviceField(snapshot, id, "salt_level", PyInt(100)), SALT_LOW_THRESHOLD + 1)

\* RainsoftSaltLowSensor.is_on
SaltLowIsOn(snapshot, id) ==
    LessThan(DeviceField(snapshot, id, "salt_level", PyInt(100)), SALT_LOW_THRESHOLD)

\* RainsoftSaltLevelSensor.native_value
SaltLevelValue(snapshot, id) == Ok(DeviceField(snapshot, id, "salt_level", PyNone))

\* RainsoftCapacitySensor.native_value
CapacityValue(snapshot, id) == Ok(DeviceField(snapshot, id, "capacity_remaining", PyNone))

\* datetime.date(y, m, d)
PyDate(y, m, d) == [t |-> "date", i |-> y * 10000 + m * 100 + d, s |-> <<>>]

IsDigits(x) == \A k \in 1..Len(x) : x[k] \in DigitChars

DaysInMonth(y, m) ==
    IF m \in {4, 6, 9, 11} THEN 30
    ELSE IF m # 2 THEN 31
    ELSE IF y % 4 = 0 /\ (y % 100 # 0 \/ y % 400 = 0) THEN 29
    ELSE 28

\* date.fromisoformat for the extended format YYYY-MM-DD
DateFromIsoformat(x) ==
    IF /\ Len(x) = 10
       /\ x[5] = "-" /\ x[8] = "-"
       /\ IsDigits(SubSeq(x, 1, 4)) /\ IsDigits(SubSeq(x, 6, 7)) /\ IsDigits(SubSeq(x, 9, 10))
    THEN LET y == DigitsValue(SubSeq(x, 1, 4))
             m == DigitsValue(SubSeq(x, 6, 7))
             d == DigitsValue(SubSeq(x, 9, 10))
         IN  IF y >= 1 /\ m \in 1..12 /\ d \in 1..DaysInMonth(y, m)
             THEN Ok(PyDate(y, m, d))
             ELSE Raise("ValueError", "date value out of range")
    ELSE Raise("ValueError", "Invalid isoformat string")

\* a two-digit number below `limit`
TwoDigits(x, limit) == Len(x) = 2 /\ IsDigits(x) /\ DigitsValue(x) < limit

\* HH, HH:MM or HH:MM:SS
TimeOk(x) ==
    \/ TwoDigits(x, 24)
    \/ Len(x) = 5 /\ x[3] = ":" /\ TwoDigits(SubSeq(x, 1, 2), 24) /\ TwoDigits(SubSeq(x, 4, 5), 60)
    \/ /\ Len(x) = 8 /\ x[3] = ":" /\ x[6] = ":"
       /\ TwoDigits(SubSeq(x, 1, 2), 24)
       /\ TwoDigits(SubSeq(x, 4, 5), 60)
       /\ TwoDigits(SubSeq(x, 7, 8), 60)

\* +HH:MM or -HH:MM
OffsetOk(x) ==
    /\ Len(x) = 6
    /\ x[1] \in {"+", "-"}
    /\ x[4] = ":"
    /\ TwoDigits(SubSeq(x, 2, 3), 24)
    /\ TwoDigits(SubSeq(x, 5, 6), 60)

\* datetime.fromisoformat(x).date() for a date alone, or a date, one separator
\* character and a time with an optional UTC offset
DatetimeFromIsoformat(x) ==
    IF Len(x) = 10 THEN DateFromIsoformat(x)
    ELSE IF /\ Len(x) >= 13
            /\ LET rest == SubSeq(x, 12, Len(x))
               IN  \/ TimeOk(rest)
                   \/ /\ Len(rest) > 6
                      /\ TimeOk(SubSeq(rest, 1, Len(rest) - 6))
                      /\ OffsetOk(SubSeq(rest, Len(rest) - 5, Len(rest)))
         THEN DateFromIsoformat(SubSeq(x, 1, 10))
         ELSE Raise("ValueError", "Invalid isoformat string")

RECURSIVE ReplaceZ(_)
\* date_str.replace("Z", "+00:00")
ReplaceZ(x) ==
    IF x = <<>> THEN <<>>
    ELSE (IF x[1] = "Z" THEN <<"+", "0", "0", ":", "0", "0">> ELSE <<x[1]>>) \o ReplaceZ(Tail(x))

\* c in x
HasChar(x, c) == \E k \in 1..Len(x) : x[k] = c

\* (mutant) only "T" announces a time
RegenerationDateOnlyT(v) ==
    IF ~Truthy(v) THEN Ok(PyNone)
    ELSE IF v.t \in {"int", "bool", "float", "inf", "nan"}
         THEN Raise("TypeError", "argument of type '" \o v.t \o "' is not iterable")
    ELSE IF v.t # "str" THEN Raise("TypeError", "fromisoformat: argument must be str")
    ELSE LET parsed == IF HasChar(v.s, "T")
                       THEN DatetimeFromIsoformat(ReplaceZ(v.s))
                       ELSE DateFromIsoformat(v.s)
         IN  IF parsed.kind \in {"ValueError", "AttributeError"} THEN Ok(PyNone) ELSE parsed

\* native_value of the two regeneration date sensors, given data.get(key):
\* `except (ValueError, AttributeError)` gives None, any other exception leaves
\* the property
RegenerationDate(v) ==
    IF ~Truthy(v) THEN Ok(PyNone)
    ELSE IF v.t \in {"int", "bool", "float", "inf", "nan"}
         THEN Raise("TypeError", "argument of type '" \o v.t \o "' is not iterable")
    ELSE IF v.t # "str" THEN Raise("TypeError", "fromisoformat: argument must be str")
    ELSE LET parsed == IF HasChar(v.s, "T") \/ HasChar(v.s, " ")
                       THEN DatetimeFromIsoformat(ReplaceZ(v.s))
                       ELSE DateFromIsoformat(v.s)
         IN  IF parsed.kind \in {"ValueError", "AttributeError"} THEN Ok(PyNone) ELSE parsed

\* RainsoftLastRegenerationSensor.native_value
LastRegenerationValue(snapshot, id) ==
    RegenerationDate(DeviceField(snapshot, id, "last_regeneration", PyNone))

\* RainsoftNextRegenerationSensor.native_value
NextRegenerationValue(snapshot, id) ==
    RegenerationDate(DeviceField(snapshot, id, "next_regeneration", PyNone))

\* (mutant) available whenever the device is in the snapshot
AvailableIgnoringSuccess(success, snapshot, id) == Ok(DictHas(snapshot.items, id))

\* RainsoftSensor.available / RainsoftBinarySensor.available
Available(success, snapshot, id) == Ok(success /\ DictHas(snapshot.items, id))

Projections ==
    {"RainsoftSystemAlertSensor.is_on", "RainsoftRegenerationSensor.is_on",
     "RainsoftSaltLowSensor.is_on", "RainsoftSaltLevelSensor.native_value",
     "RainsoftCapacitySensor.native_value", "RainsoftLastRegenerationSensor.native_value",
     "RainsoftNextRegenerationSensor.native_value", "available"}

\* the property `kind` of the entity of device `id`
Project(kind, success, snapshot, id) ==
    CASE kind = "RainsoftSystemAlertSensor.is_on" -> AlertIsOn(snapshot, id)
      [] kind = "RainsoftRegenerationSensor.is_on" -> RegenerationIsOn(snapshot, id)
      [] kind = "RainsoftSaltLowSensor.is_on" -> SaltLowIsOn(snapshot, id)
      [] kind = "RainsoftSaltLevelSensor.native_value" -> SaltLevelValue(snapshot, id)
      [] kind = "RainsoftCapacitySensor.native_value" -> CapacityValue(snapshot, id)
      [] kind = "RainsoftLastRegenerationSensor.native_value" ->
            LastRegenerationValue(snapshot, id)
      [] kind = "RainsoftNextRegenerationSensor.native_value" ->
            NextRegenerationValue(snapshot, id)
      [] OTHER -> Available(success, snapshot, id)

\* the device ids entities are asked about: those of the snapshot and one it lacks
EntityIds(snapshot) == DictKeys(snapshot.items) \cup {<<"9">>}

\* the host reads a property of an entity
EntityRead ==
    /\ loaded
    /\ data.set
    /\ \E kind \in Projections, id \in EntityIds(data) :
          Start(kind, [Frame(kind, "start") EXCEPT !.arg = PyStr(id)])
    /\ UNCHANGED <<entries, token, customer_id, devices, data, last_update_success, loaded,
                   entities, options, update_interval>>

EntityReadDone ==
    /\ stack # <<>>
    /\ Top.fn \in Projections
    /\ Return(Project(Top.fn, last_update_success, data, Top.arg.s))
    /\ UNCHANGED <<entries, token, customer_id, devices, data, last_update_success, loaded,
                   entities, log, op, options, update_interval>>

-----------------------------------------------------------------------------
(* The records and their projections on their own: the listings below give   *)
(* the snapshot, and the normalizers are applied to single devices.         *)

\* the texts of regenTime
RegenText(kind) ==
    LET day == <<"2", "0", "2", "4", "-", "0", "1", "-", "1", "5">>
        time == <<"0", "8", ":", "0", "0", ":", "0", "0">>
    IN  CASE kind = "date" -> day
          [] kind = "date-time Z" -> day \o <<"T">> \o time \o <<"Z">>
          [] kind = "date-time space" -> day \o <<" ">> \o time
          [] kind = "date-time offset" -> day \o <<"T">> \o time \o <<"+", "0", "2", ":", "0", "0">>
          [] kind = "leap day" -> <<"2", "0", "2", "4", "-", "0", "2", "-", "2", "9">>
          [] kind = "no such day" -> <<"2", "0", "2", "4", "-", "0", "2", "-", "3", "0">>
          [] kind = "no such hour" -> day \o <<"T">> \o <<"2", "5", ":", "0", "0", ":", "0", "0">>
          [] OTHER -> <<"g", "a", "r", "b", "a", "g", "e">>


\* the device entries of the listings: levels around the threshold, statuses in
\* several cases, null, missing and mistyped fields (K: a status that is not a
\* string; F: a regenTime given as a number of seconds)
Rec(n) ==
    CASE n = "A" -> RawDevice(PyInt(1), PyStr(<<"A">>), PyInt(50), PyInt(80), PyStr(Txt("Normal")),
                              PyStr(RegenText("date")))
      [] n = "B" -> RawDevice(PyStr(<<"2">>), Missing, PyInt(19), Missing,
                              PyStr(Txt("Regenerating")), PyStr(RegenText("date-time Z")))
      [] n = "C" -> RawDevice(PyInt(3), Missing, PyInt(20), PyInt(5), PyStr(Txt("NORMAL")),
                              PyStr(RegenText("date-time space")))
      [] n = "D" -> RawDevice(PyInt(4), Missing, PyNone, PyStr(<<"n", "/", "a">>), PyNone, Missing)
      [] n = "E" -> RawDevice(PyInt(5), Missing, Missing, PyNone, Missing,
                              PyStr(RegenText("garbage")))
      [] n = "F" -> RawDevice(PyInt(6), Missing, PyStr(<<"1", "5">>), PyFloat(7, <<"5">>),
                              PyStr(<<>>), PyInt(1705305600))
      [] n = "G" -> RawDevice(PyInt(7), Missing, PyInt(0), PyInt(0), PyStr(Txt("REGEN")),
                              PyStr(RegenText("no such day")))
      [] n = "H" -> RawDevice(PyInt(8), Missing, PyInt(21), PyInt(100), PyStr(Txt("REGENERATION")),
                              PyStr(RegenText("date-time offset")))
      [] n = "I" -> RawDevice(PyInt(11), Missing, PyFloat(19, <<"5">>), PyInt(1),
                              PyStr(Txt("Ready")), PyStr(RegenText("leap day")))
      [] n = "J" -> RawDevice(PyInt(12), Missing, PyInt(100), PyInt(1), PyStr(S_unknown),
                              PyStr(RegenText("no such hour")))
      [] OTHER -> RawDevice(PyInt(13), Missing, PyInt(30), PyInt(1), PyInt(3), PyNone)

RecordDevices == {Rec(n) : n \in {"A", "B", "C", "D", "E", "F", "G", "H", "I", "J", "K"}}

\* the listings of one location that give the snapshot
RecordListings ==
    {<<>>, <<Rec("A"), Rec("B")>>} \cup {<<d>> : d \in RecordDevices \ {Rec("K")}}

\* the answers of the device endpoint given to the parser
StatusDevices ==
    {StatusDevice(PyInt(1), PyInt(50), PyInt(80), status, PyStr(RegenText("date")),
                  PyStr(RegenText("date-time Z"))) :
        status \in {PyStr(Txt("Regenerating")), PyStr(Txt("REGENERATION")), PyStr(Txt("REGEN")),
                    PyStr(Txt("Ready")), PyStr(<<>>), PyNone, Missing, PyInt(3)}}

NormalizeCall ==
    /\ \E d \in RecordDevices :
          Start("_normalize_device_data",
                [Frame("_normalize_device_data", "start") EXCEPT !.arg = d])
    /\ UNCHANGED <<entries, token, customer_id, devices, data, last_update_success, loaded,
                   entities, options, update_interval>>

NormalizeReturn ==
    /\ Running("_normalize_device_data", "start")
    /\ Return(NormalizeDeviceData(Top.arg))
    /\ UNCHANGED <<entries, token, customer_id, devices, data, last_update_success, loaded,
                   entities, log, op, options, update_interval>>

ParseCall ==
    /\ \E d \in StatusDevices :
          Start("_parse_device_data", [Frame("_parse_device_data", "start") EXCEPT !.arg = d])
    /\ UNCHANGED <<entries, token, customer_id, devices, data, last_update_success, loaded,
                   entities, options, update_interval>>

ParseReturn ==
    /\ Running("_parse_device_data", "start")
    /\ Return(ParseDeviceData(Top.arg))
    /\ UNCHANGED <<entries, token, customer_id, devices, data, last_update_success, loaded,
                   entities, log, op, options, update_interval>>

\* a loaded entry after a cycle that listed `listing`, and possibly a later
\* cycle that failed
InitRecords ==
    \E listing \in RecordListings :
       LET got == Ok(Flatten(<<Location(PyInt(10), PyStr(Txt("Home")), TRUE, listing)>>))
           r == UpdateDataResult(got)
       IN  /\ r.kind = "ok"
           /\ token = T1
           /\ customer_id = PyStr(<<"7">>)
           /\ devices = UpdateDataDevices(got, <<>>)
           /\ data = HostCommit(r, NoSnapshot)
           /\ last_update_success \in BOOLEAN
           /\ loaded = TRUE
           /\ entities = PlatformEntities(HostCommit(r, NoSnapshot))
           /\ entries = {}
           /\ stack = <<>>
           /\ ret = NoRet
           /\ log = <<>>
           /\ op = ""
           /\ options = Missing
           /\ update_interval = ScanIntervalHours(Missing)

NextRecords ==
    \/ EntityRead
    \/ EntityReadDone
    \/ NormalizeCall
    \/ NormalizeReturn
    \/ ParseCall
    \/ ParseReturn

SpecRecords == InitRecords /\ [][NextRecords]_vars

-----------------------------------------------------------------------------

Init ==
    /\ token = PyNone
    /\ customer_id = PyNone
    /\ devices = <<>>
    /\ data = NoSnapshot
    /\ last_update_success = TRUE
    /\ loaded = FALSE
    /\ entities = {}
    /\ entries = {}
    /\ stack = <<>>
    /\ ret = NoRet
    /\ log = <<>>
    /\ op = ""
    /\ options = Missing
    /\ update_interval = 0

\* the integration: setup, unload and the periodic poll cycle
Next ==
    \/ SetupEntry
    \/ UnloadEntry
    \/ Refresh
    \/ RequestSend
    \/ RequestReauthDone
    \/ RequestRetry
    \/ AuthenticateStart
    \/ AuthenticateDone
    \/ GetCustomerIdStart
    \/ GetCustomerIdDone
    \/ GetDevicesStart
    \/ GetDevicesDone
    \/ UpdateDataStart
    \/ UpdateDataDone
    \/ HostRefreshStart
    \/ HostRefreshDone
    \/ SetupEntryStart
    \/ SetupEntryAuthenticated
    \/ SetupEntryResolved
    \/ SetupEntryRefreshed

Spec == Init /\ [][Next]_vars

\* the client on its own: any sequence of calls of its methods
NextClient ==
    \/ ClientCall
    \/ RequestSend
    \/ RequestReauthDone
    \/ RequestRetry
    \/ AuthenticateStart
    \/ AuthenticateDone
    \/ GetCustomerIdStart
    \/ GetCustomerIdDone
    \/ GetDevicesStart
    \/ GetDevicesResolved
    \/ GetDevicesDone
    \/ GetDeviceStatusStart
    \/ GetDeviceStatusDone
    \/ ForceUpdateStart
    \/ ForceUpdateDone

SpecClient == Init /\ [][NextClient]_vars

\* the life cycle of the entry: setup with its first refresh, unload, and
\* the options flow with the reload it causes
NextOptions ==
    \/ OptionsFlowSubmit
    \/ SetupEntry
    \/ UnloadEntry
    \/ RequestSend
    \/ RequestReauthDone
    \/ RequestRetry
    \/ AuthenticateStart
    \/ AuthenticateDone
    \/ GetCustomerIdStart
    \/ GetCustomerIdDone
    \/ GetDevicesStart
    \/ GetDevicesDone
    \/ UpdateDataStart
    \/ UpdateDataDone
    \/ HostRefreshStart
    \/ HostRefreshDone
    \/ SetupEntryStart
    \/ SetupEntryAuthenticated
    \/ SetupEntryResolved
    \/ SetupEntryRefreshed

SpecOptions == Init /\ [][NextOptions]_vars

\* the config flow: the user step with the validation of the credentials
NextConfigFlow ==
    \/ ConfigFlowUser
    \/ ValidateCredentialsStart
    \/ ValidateCredentialsAuthenticated
    \/ ValidateCredentialsResolved
    \/ StepUserValidated
    \/ RequestSend
    \/ RequestReauthDone
    \/ RequestRetry
    \/ AuthenticateStart
    \/ AuthenticateDone
    \/ GetCustomerIdStart
    \/ GetCustomerIdDone

SpecConfigFlow == Init /\ [][NextConfigFlow]_vars

-----------------------------------------------------------------------------
(* Properties of the request protocol (checked under SpecClient) *)

Last(q) == q[Len(q)]

\* a call of _request made by an authenticated method has just returned to it
RequestReturned ==
    /\ Returned
    /\ stack # <<>>
    /\ Top.pc = "wait"
    /\ Top.fn \in {"get_customer_id", "get_devices", "get_device_status", "force_update"}

Answered(e, status) == e.err = "none" /\ e.status = status
LoginSucceeded(e) == Answered(e, 200) /\ e.body.valid /\ e.body.token.t # "missing"
SameRequest(e, f) == e.method = f.method /\ e.ep = f.ep /\ e.path = f.path

\* C1 as stated: after a first 400 there is always exactly one login and exactly
\* one retry with the token of that login; a retry answered 200 gives its parsed
\* body, a retry answered otherwise gives AuthError.
C1_AsStated ==
    (RequestReturned /\ Answered(log[1], 400)) =>
        /\ Len(log) = 3
        /\ log[2].method = "POST" /\ log[2].ep = "/login"
        /\ SameRequest(log[3], log[1])
        /\ log[3].hdr = log[2].body.token
        /\ Answered(log[3], 200) => (ret.kind = "ok" /\ ret.val = log[3].body)
        /\ (log[3].err = "none" /\ log[3].status # 200) => ret.kind = "AuthError"

\* C1 (amended): after a first 400 of an authenticated call there is exactly one
\* login request; if the login fails the call fails with the login's AuthError or
\* ConnectionError and nothing is retried; if it succeeds there is exactly one
\* retry of the same method and URL carrying the token of that login, and the call
\* returns the retry's parsed body when the retry is a 200 with a JSON body, fails
\* with ApiError when it is a 200 without one, and with AuthError when it is not 200.
C1_ReauthRetry ==
    (RequestReturned /\ Answered(log[1], 400)) =>
        /\ Len(log) \in {2, 3}
        /\ log[2].method = "POST" /\ log[2].ep = "/login" /\ log[2].hdr = Missing
        /\ IF LoginSucceeded(log[2])
           THEN /\ Len(log) = 3
                /\ SameRequest(log[3], log[1])
                /\ log[3].hdr = log[2].body.token
                /\ (Answered(log[3], 200) /\ log[3].body.valid) =>
                       (ret.kind = "ok" /\ ret.val = log[3].body)
                /\ (Answered(log[3], 200) /\ ~log[3].body.valid) => ret.kind = "ApiError"
                /\ (log[3].err = "none" /\ log[3].status # 200) => ret.kind = "AuthError"
           ELSE /\ Len(log) = 2
                /\ ret.kind \in {"AuthError", "ConnectionError"}

C1_Witness ==
    /\ RequestReturned
    /\ Len(log) = 3
    /\ Answered(log[1], 400)
    /\ log[1].hdr = T1
    /\ log[3].hdr = T2
    /\ Answered(log[3], 200)
    /\ ret.kind = "ok"

\* C2: one call of _request never makes more than three HTTP requests (the
\* original, one login, one retry); a 400 answer to the login or to the retry is
\* the last exchange of the call, and at most one re-authentication is in progress.
C2_BoundedRequests ==
    /\ Len(log) <= 3
    /\ \A k \in 2..Len(log) : Answered(log[k], 400) => k = Len(log)
    /\ Cardinality({k \in 1..Len(stack) : stack[k].fn = "_request"}) <= 2
    /\ Cardinality({k \in 1..Len(stack) : stack[k].fn = "authenticate"}) <= 1
    /\ (\E k \in 2..Len(log) : Answered(log[k], 400)) => ~Running("_request", "send")

\* the server answers 400 to everything and the call has ended
C2_Witness ==
    /\ RequestReturned
    /\ Len(log) = 2
    /\ Answered(log[1], 400)
    /\ Answered(log[2], 400)
    /\ ret.kind = "AuthError"

\* C3: an authenticated request whose only response is neither 200 nor 400 fails
\* with AuthError for 401, ApiError for 404, ConnectionError for 500 and above, and
\* ApiError for any other status; a 200 whose body is not JSON fails with ApiError.
C3_StatusMapping ==
    (RequestReturned /\ Len(log) = 1 /\ log[1].err = "none" /\ log[1].status # 400) =>
        LET st == log[1].status
        IN  /\ st = 401 => ret.kind = "AuthError"
            /\ st = 404 => ret.kind = "ApiError"
            /\ st >= 500 => ret.kind = "ConnectionError"
            /\ (st \notin {200, 401, 404} /\ st < 500) => ret.kind = "ApiError"
            /\ (st = 200 /\ ~log[1].body.valid) => ret.kind = "ApiError"
            /\ (st = 200 /\ log[1].body.valid) => ret.kind = "ok"

C3_Witness ==
    /\ RequestReturned
    /\ Len(log) = 1
    /\ Answered(log[1], 500)
    /\ ret.kind = "ConnectionError"

\* C4 as stated: every request of an authenticated call (anything but the login)
\* carries the token header.
C4_TokenHeaderAlwaysSent ==
    \A k \in 1..Len(log) : log[k].ep # "/login" => log[k].hdr # Missing

-----------------------------------------------------------------------------
(* Properties of the poll cycle (checked under Spec) *)

\* _async_update_data has just returned to the host's refresh: ret is what the
\* cycle returned or raised
CycleEnded == Running("_async_refresh", "wait") /\ Returned

\* the host has committed a successful cycle (a periodic one, or the first one)
CycleCommitted ==
    /\ ret.kind = "ok"
    /\ \/ Idle /\ op = "refresh"
       \/ Running("async_setup_entry", "refreshed")

\* the cycle's locations request was answered with a device listing
CycleListed ==
    /\ log # <<>>
    /\ Last(log).ep = "/locations"
    /\ Answered(Last(log), 200)
    /\ Last(log).body.valid
    /\ Last(log).body.locs = "list"

\* the devices of that listing, in response order
CycleListing == Flatten(Last(log).body.list)

Has5xx(e) == e.err = "none" /\ e.status >= 500

\* C5: a poll cycle returns a snapshot or raises ConfigEntryAuthFailed or
\* UpdateFailed and nothing else; an AuthError of the client becomes
\* ConfigEntryAuthFailed, a ConnectionError or ApiError becomes UpdateFailed, and
\* any other exception becomes UpdateFailed carrying the original message.
C5_CycleOutcomes ==
    [][(Running("_async_update_data", "wait") /\ Returned) =>
          /\ ret'.kind \in {"ok", "ConfigEntryAuthFailed", "UpdateFailed"}
          /\ ret.kind = "AuthError" => ret'.kind = "ConfigEntryAuthFailed"
          /\ ret.kind \in {"ConnectionError", "ApiError"} =>
                 (ret'.kind = "UpdateFailed" /\ \E pre \in {"Connection error: ", "API error: "} :
                                                    ret'.msg = pre \o ret.msg)
          /\ ret.kind \notin {"ok", "AuthError", "ConnectionError", "ApiError"} =>
                 (ret'.kind = "UpdateFailed" /\ ret'.msg = "Unexpected error: " \o ret.msg)
      ]_vars

\* an exception that is none of the client's own was wrapped
C5_Witness ==
    /\ CycleEnded
    /\ ret.kind = "UpdateFailed"
    /\ ret.msg = "Unexpected error: 'NoneType' object is not iterable"

\* C6: coordinator.data changes only when the host commits the snapshot returned
\* by a successful cycle (or when setup constructs a new coordinator); a cycle
\* that fails leaves it exactly as it was.
C6_FailedCycleCommitsNothing ==
    [][data' # data =>
          \/ CycleEnded /\ ret.kind = "ok" /\ data' = Snapshot(ret.val)
          \/ Running("async_setup_entry", "resolved") /\ data' = NoSnapshot
      ]_vars

\* a cycle failed half-way through a listing while a snapshot was committed
C6_Witness ==
    /\ Idle
    /\ op = "refresh"
    /\ ret.kind = "UpdateFailed"
    /\ CycleListed
    /\ \E k \in 1..Len(CycleListing) : UsableId(CycleListing[k])
    /\ data.set
    /\ data.items # <<>>
    /\ ~last_update_success

\* C7 as stated: a cycle whose non-empty listing has no device with a usable id
\* raises UpdateFailed("No device data available").
C7_NoDeviceDataMessage ==
    (/\ CycleEnded
     /\ CycleListed
     /\ CycleListing # <<>>
     /\ \A k \in 1..Len(CycleListing) : ~UsableId(CycleListing[k]))
    => ret = Raise("UpdateFailed", "No device data available")

\* C8 as stated: a cycle whose listing has at least one device that can be
\* normalized succeeds, whatever the other devices of the listing are.
C8_PerDeviceIsolation ==
    (/\ CycleEnded
     /\ CycleListed
     /\ \E k \in 1..Len(CycleListing) :
            UsableId(CycleListing[k]) /\ NormalizeDeviceData(CycleListing[k]).kind = "ok")
    => ret.kind = "ok"

\* C9 as stated: a cycle in which any HTTP request was answered 5xx ends with
\* UpdateFailed.
C9_Any5xxIsTransient ==
    (CycleEnded /\ \E k \in 1..Len(log) : Has5xx(log[k])) => ret.kind = "UpdateFailed"

\* C9 (amended): a 5xx answer to the first request of a call or to the login made
\* for a re-authentication ends the cycle with UpdateFailed; a 5xx answer to the
\* retry that follows a re-authentication ends it with ConfigEntryAuthFailed.
C9_5xxClassification ==
    CycleEnded =>
        /\ (\E k \in 1..Len(log) : k <= 2 /\ Has5xx(log[k])) =>
               ret.kind = "UpdateFailed"
        /\ (Len(log) = 3 /\ Has5xx(log[3])) => ret.kind = "ConfigEntryAuthFailed"

\* the login of a re-authentication was answered 503
C9_Witness ==
    /\ CycleEnded
    /\ Len(log) = 2
    /\ Answered(log[1], 400)
    /\ Answered(log[2], 503)
    /\ ret.kind = "UpdateFailed"

\* an id that is present, not null, not empty and not zero
HasUsableId(d) ==
    \/ d.id.t = "str" /\ Len(d.id.s) > 0
    \/ d.id.t = "int" /\ d.id.i # 0

\* C10: after a successful cycle the keys of the snapshot are exactly the string
\* forms of the usable ids of that cycle's listing, each once and none empty.
C10_SnapshotKeys ==
    CycleCommitted =>
        /\ CycleListed
        /\ data.set
        /\ DictKeys(data.items) =
               {Str(CycleListing[k].id) :
                    k \in {j \in 1..Len(CycleListing) : HasUsableId(CycleListing[j])}}
        /\ <<>> \notin DictKeys(data.items)
        /\ \A i, j \in 1..Len(data.items) : data.items[i].key = data.items[j].key => i = j

\* a commit that skipped a device without id, after a listing that had devices
\* the new one lacks
C10_Witness ==
    /\ CycleCommitted
    /\ Idle
    /\ Len(CycleListing) = 2
    /\ DictKeys(data.items) = {<<"1">>}
    /\ \E k \in 1..Len(CycleListing) : ~HasUsableId(CycleListing[k])

\* the host has finished a cycle, successful or not (a periodic one, or the first)
CycleDone ==
    \/ Idle /\ op = "refresh"
    \/ Running("async_setup_entry", "refreshed") /\ Returned

\* C11: a poll cycle whose listing has no device succeeds: it returns the empty
\* mapping, raises nothing, and the host commits the empty snapshot.
C11_EmptyListingSucceeds ==
    /\ (CycleEnded /\ CycleListed /\ CycleListing = <<>>) => ret = Ok(<<>>)
    /\ (CycleDone /\ CycleListed /\ CycleListing = <<>>) =>
           /\ ret.kind = "ok"
           /\ data = Snapshot(<<>>)
           /\ last_update_success

\* an empty listing came after a cycle that had listed devices
C11_Witness ==
    /\ Idle
    /\ op = "refresh"
    /\ CycleListed
    /\ CycleListing = <<>>
    /\ data = Snapshot(<<>>)
    /\ devices # <<>>

\* C12 as stated: once a successful cycle is over, coordinator.devices is the
\* list that cycle's get_devices returned, the empty list included.
C12_DevicesOfLastSuccess ==
    (CycleCommitted /\ CycleListed) => devices = CycleListing

-----------------------------------------------------------------------------
(* Properties of the client's operations (checked under SpecClient) *)

\* authenticate has just returned to its caller: a direct caller, the entry
\* setup, or the 400 branch of _request
AuthenticateReturned ==
    /\ Returned
    /\ \/ Idle /\ op = "authenticate"
       \/ Running("_request", "reauth")
       \/ Running("async_setup_entry", "authenticated")

\* C13: authenticate stores the token of the login response and returns True when
\* the response is a 200 whose JSON body has the authentication_token field; it
\* raises AuthError when the field is absent or the body is not JSON, and
\* ConnectionError on a transport failure or a timeout.
C13_AuthenticateOutcomes ==
    AuthenticateReturned =>
        LET e == Last(log)
        IN  /\ e.ep = "/login"
            /\ LoginSucceeded(e) =>
                   (ret.kind = "ok" /\ ret.val = TRUE /\ token = e.body.token)
            /\ (Answered(e, 200) /\ ~LoginSucceeded(e)) => ret.kind = "AuthError"
            /\ e.err # "none" => ret.kind = "ConnectionError"

\* a direct call stored the token of its response
C13_Witness ==
    /\ Idle
    /\ op = "authenticate"
    /\ ret.kind = "ok"
    /\ LoginSucceeded(Last(log))
    /\ token = T2

\* C14: when authenticate ends, the stored token is the token of its login
\* response if the call succeeded and the value it had before the call if the
\* call failed, and the call succeeds exactly when the login did.
C14_TokenReplacedWholesale ==
    [][(Running("authenticate", "wait") /\ Returned) =>
          /\ (ret'.kind = "ok") = LoginSucceeded(Last(log))
          /\ IF LoginSucceeded(Last(log))
             THEN token' = Last(log).body.token
             ELSE token' = token
      ]_vars

\* a re-authentication triggered by a 400 failed and the old token is still there
C14_Witness ==
    /\ Running("_request", "reauth")
    /\ Returned
    /\ ret.kind \in {"AuthError", "ConnectionError"}
    /\ token = T1

\* C15: the token changes only in the step that ends authenticate and the
\* customer id only in the step that ends get_customer_id.
C15_SessionWriters ==
    [][/\ token' # token => Running("authenticate", "wait")
       /\ customer_id' # customer_id => Running("get_customer_id", "wait")
      ]_vars

\* force_update has ended and the token is not the one it started with: the
\* re-authentication inside it replaced it
C15_Witness ==
    /\ Idle
    /\ op = "force_update"
    /\ Len(log) = 3
    /\ log[1].hdr = T1
    /\ token = T2

\* the last response is a 200 with a JSON body
AnsweredJson(e) == Answered(e, 200) /\ e.body.valid

\* C16: get_customer_id called without a token raises AuthError and sends no
\* request; when its request is answered 200 with an id it caches and returns the
\* string form of the id; when it is answered 200 without an id it raises ApiError
\* and the cached customer id stays as it was.
C16_CustomerIdOutcomes ==
    [][/\ (Running("get_customer_id", "start") /\ token = PyNone) =>
              /\ ret'.kind = "AuthError"
              /\ log' = log
              /\ Len(stack') = Len(stack) - 1
       /\ (Running("get_customer_id", "wait") /\ Returned
             /\ Last(log).ep = "/customer" /\ AnsweredJson(Last(log))) =>
              LET id == Last(log).body.id
              IN  IF id.t # "missing"
                  THEN /\ customer_id' = PyStr(Str(id))
                       /\ id = PyInt(7) => customer_id' = PyStr(<<"7">>)
                       /\ ret' = Ok(customer_id')
                  ELSE /\ ret'.kind = "ApiError"
                       /\ customer_id' = customer_id
      ]_vars

\* a 200 without id after an id had been cached
C16_Witness ==
    /\ Idle
    /\ op = "get_customer_id"
    /\ ret.kind = "ApiError"
    /\ Last(log).ep = "/customer"
    /\ AnsweredJson(Last(log))
    /\ Last(log).body.id.t = "missing"
    /\ customer_id = PyStr(<<"7">>)

RECURSIVE DevicesUpTo(_, _)
\* the number of devices listed under the first n locations
DevicesUpTo(locs, n) ==
    IF n = 0 THEN 0
    ELSE DevicesUpTo(locs, n - 1) + (IF locs[n].hasDevices THEN Len(locs[n].devices) ELSE 0)

\* a direct call of get_devices has returned a list
GetDevicesReturned == Idle /\ op = "get_devices" /\ ret.kind = "ok"

\* C17: the list get_devices returns has as many devices as the locations of
\* the response list together, and the j-th device of the i-th location stands
\* right after all devices of the earlier locations, unchanged but for the id
\* and name of that location.
C17_FlattenedInOrder ==
    GetDevicesReturned =>
        LET locs == Last(log).body.list
        IN  /\ Len(ret.val) = DevicesUpTo(locs, Len(locs))
            /\ \A i \in 1..Len(locs) :
                   locs[i].hasDevices =>
                       \A j \in 1..Len(locs[i].devices) :
                           ret.val[DevicesUpTo(locs, i - 1) + j] =
                               [locs[i].devices[j] EXCEPT
                                   !.location_id = IF locs[i].id.t = "missing"
                                                   THEN PyNone ELSE locs[i].id,
                                   !.location_name = IF locs[i].name.t = "missing"
                                                     THEN PyNone ELSE locs[i].name]

\* two devices under two locations with a location without devices in between
C17_Witness ==
    /\ GetDevicesReturned
    /\ Len(Last(log).body.list) = 3
    /\ Len(ret.val) = 2
    /\ ret.val[1].location_name = PyStr(Txt("Home"))
    /\ ret.val[2].location_id = PyInt(20)
    /\ ret.val[2].location_name = PyNone

\* the running coroutine is about to send GET /locations/{customer_id}
LocationsRequestNext ==
    /\ stack'[Len(stack')].fn = "_request"
    /\ stack'[Len(stack')].method = "GET"
    /\ stack'[Len(stack')].ep = "/locations"
    /\ stack'[Len(stack')].path = customer_id.s

\* C18: get_devices calls get_customer_id first exactly when no customer id is
\* cached, and sends the locations request only once the customer request has
\* given the id; a 200 locations response without locationListData makes it
\* raise ApiError.
C18_ResolveThenList ==
    [][/\ Running("get_devices", "start") =>
              IF customer_id \in {PyNone, PyStr(<<>>)}
              THEN stack'[Len(stack')].fn = "get_customer_id"
              ELSE LocationsRequestNext
       /\ (Running("get_devices", "resolved") /\ Returned /\ ret.kind = "ok") =>
              /\ log[1].ep = "/customer"
              /\ LocationsRequestNext
       /\ (Running("get_devices", "wait") /\ Returned
             /\ Last(log).ep = "/locations" /\ AnsweredJson(Last(log))
             /\ Last(log).body.locs = "missing") => ret'.kind = "ApiError"
      ]_vars

\* the locations response had no locationListData
C18_Witness ==
    /\ Idle
    /\ op = "get_devices"
    /\ ret = Raise("ApiError", "Invalid response from locations endpoint")
    /\ Last(log).ep = "/locations"
    /\ Last(log).path = <<"c", "8">>
    /\ AnsweredJson(Last(log))

GetDeviceStatusParsed ==
    /\ Idle
    /\ op = "get_device_status"
    /\ Last(log).ep = "/device"
    /\ AnsweredJson(Last(log))
    /\ Last(log).body.hasDev

\* a value int() has no integer for
NotConvertible(v) ==
    \/ v.t \in {"missing", "none", "list", "nan", "inf"}
    \/ v.t = "str" /\ ~IntLiteral(v.s).ok

\* C20 as stated: whatever the salt level and the capacity of the device object
\* are, _safe_int raises nothing and gives an integer for each, and gives 0 for a
\* value that is null, missing or not convertible.
C20_SafeIntTotal ==
    GetDeviceStatusParsed =>
        LET dev == Last(log).body.dev
        IN  /\ ret.kind = "ok"
            /\ ret.val.salt_level.t = "int"
            /\ ret.val.capacity_remaining.t = "int"
            /\ NotConvertible(dev.salt_level) => ret.val.salt_level.i = 0
            /\ NotConvertible(dev.capacity_remaining) => ret.val.capacity_remaining.i = 0

\* a direct call of a method of the client has ended
ClientCallEnded ==
    /\ Idle
    /\ op \in ClientOperations \cup {"get_device_status"}
    /\ log # <<>>

\* an HTTP request of the call failed at transport level or timed out
TransportFailed == \E k \in 1..Len(log) : log[k].err # "none"

InCycle == \E k \in 1..Len(stack) : stack[k].fn = "_async_update_data"

CycleEndpoints == {"/locations", "/customer", "/login"}

\* C29: while a poll cycle runs, neither get_device_status nor force_update is
\* called, and every request that is sent or about to be sent goes to the
\* locations, the customer or the login endpoint.
C29_ListingOnly ==
    InCycle =>
        /\ \A k \in 1..Len(stack) :
               /\ stack[k].fn \notin {"get_device_status", "force_update"}
               /\ stack[k].fn = "_request" => stack[k].ep \in CycleEndpoints
        /\ \A k \in 1..Len(log) : log[k].ep \in CycleEndpoints

\* a cycle that re-authenticated and got its listing from the retry
C29_Witness ==
    /\ CycleEnded
    /\ ret.kind = "ok"
    /\ Len(log) = 3
    /\ log[1].ep = "/locations"
    /\ log[2].ep = "/login"
    /\ log[3].ep = "/locations"
    /\ CycleListing # <<>>

\* C21 as stated: every record of the committed snapshot has an integer salt
\* level and an integer capacity remaining, 0 where the listing entry had no
\* value, null, or a value that is not a number.
C21_IntegerLevels ==
    data.set =>
        \A k \in 1..Len(data.items) :
            /\ data.items[k].val.salt_level.t = "int"
            /\ data.items[k].val.capacity_remaining.t = "int"

-----------------------------------------------------------------------------
(* Properties of the records and of the entity projections (checked under   *)
(* SpecRecords)                                                             *)

\* the text of a status, empty for a status that is no string
StatusText(v) == IF v.t = "str" THEN v.s ELSE <<>>

\* x has nine consecutive characters spelling "regenerat" in either case
MentionsRegenerat(x) ==
    \E k \in 1..(Len(x) - 8) :
        \A j \in 1..9 : x[k + j - 1] \in {S_regenerat[j], Txt("REGENERATION")[j]}

\* the status and the flag of a record agree, for a device whose status field is `raw`
FlagMatchesStatus(record, raw) ==
    /\ record.system_status = (IF raw = Missing THEN PyStr(S_unknown) ELSE raw)
    /\ record.regeneration_active = MentionsRegenerat(StatusText(record.system_status))
    /\ raw = Missing => ~record.regeneration_active

\* C22: every record either normalizer produces has its regeneration-active
\* flag true exactly when its system status contains "regenerat" in any case, a
\* missing status becomes "unknown" with the flag false, and the regeneration
\* projection shows the flag of the record.
C22_RegenerationFlag ==
    [][/\ (Running("_normalize_device_data", "start") /\ ret'.kind = "ok") =>
              FlagMatchesStatus(ret'.val, Top.arg.systemStatusName)
       /\ (Running("_parse_device_data", "start") /\ ret'.kind = "ok") =>
              FlagMatchesStatus(ret'.val, Top.arg.system_status_name)
       /\ Running("RainsoftRegenerationSensor.is_on", "start") =>
              ret' = Ok(/\ DictHas(data.items, Top.arg.s)
                        /\ MentionsRegenerat(
                              StatusText(DictGet(data.items, Top.arg.s).system_status)))
      ]_vars

\* the listing normalizer has produced a record with the status "REGENERATION"
\* and the flag set
C22_Witness ==
    /\ Idle
    /\ op = "_normalize_device_data"
    /\ ret.kind = "ok"
    /\ ret.val.system_status = PyStr(Txt("REGENERATION"))
    /\ ret.val.regeneration_active

\* the entity read is that of property `kind`, about to return
Reading(kind) == Running(kind, "start")

\* the device the running read is about is in the snapshot
DevicePresent == DictHas(data.items, Top.arg.s)

\* the record of the device the running read is about
DeviceRecord == DictGet(data.items, Top.arg.s)

\* the snapshot holds the record of device `raw` alone
OnlyDevice(raw) == Len(data.items) = 1 /\ data.items[1].key = Str(raw.id)

\* x is "normal" in any case
EqualsNormal(x) ==
    Len(x) = 6 /\ \A j \in 1..6 : x[j] \in {S_normal[j], Txt("NORMAL")[j]}

\* C23: the alert projection is false when the status of the device is
\* "normal" in any case, when it is empty or null, and when the device is not
\* in the snapshot; for every other status ("Regenerating", "REGEN",
\* "unknown", ...) it is true.
C23_AlertFlag ==
    [][Reading("RainsoftSystemAlertSensor.is_on") =>
          ret' = Ok(/\ DevicePresent
                    /\ DeviceRecord.system_status.t = "str"
                    /\ DeviceRecord.system_status.s # <<>>
                    /\ ~EqualsNormal(DeviceRecord.system_status.s))
      ]_vars

\* the alert of a device whose status is "REGEN" has been read as on
C23_Witness ==
    /\ Idle
    /\ op = "RainsoftSystemAlertSensor.is_on"
    /\ OnlyDevice(Rec("G"))
    /\ data.items[1].val.system_status = PyStr(Txt("REGEN"))
    /\ ret = Ok(TRUE)

\* C24: for a device whose salt level is a number, the salt-low projection is
\* true exactly when the level is below 20: true at 19 and 19.5, false at 20
\* and above.
C24_SaltLowBelow20 ==
    [][(/\ Reading("RainsoftSaltLowSensor.is_on")
        /\ DevicePresent
        /\ DeviceRecord.salt_level.t \in {"int", "float"}) =>
          ret' = Ok(DeviceRecord.salt_level.i <= 19)
      ]_vars

\* the salt-low flag of a device with a salt level of 19 has been read as on
C24_Witness ==
    /\ Idle
    /\ op = "RainsoftSaltLowSensor.is_on"
    /\ OnlyDevice(Rec("B"))
    /\ data.items[1].val.salt_level = PyInt(19)
    /\ ret = Ok(TRUE)

\* C25: no entity projection raises, whatever the committed snapshot and the
\* device id: each read of the alert, regeneration, salt-low, salt level,
\* capacity and date projections returns a value or no value.
C25_ProjectionsNeverRaise ==
    [][(stack # <<>> /\ Top.fn \in Projections) => ret'.kind = "ok"]_vars

\* the date a regeneration text stands for, None when it stands for none
DateOfText(x) ==
    IF x \in {RegenText("date"), RegenText("date-time Z"), RegenText("date-time space"),
              RegenText("date-time offset")}
    THEN PyDate(2024, 1, 15)
    ELSE IF x = RegenText("leap day") THEN PyDate(2024, 2, 29)
    ELSE PyNone

\* the read of a date projection of field `field` gives the date of its text
DateProjected(kind, field) ==
    Reading(kind) =>
        IF ~DevicePresent THEN ret' = Ok(PyNone)
        ELSE /\ DeviceRecord[field].t = "none" => ret' = Ok(PyNone)
             /\ DeviceRecord[field].t = "str" => ret' = Ok(DateOfText(DeviceRecord[field].s))

\* C26: the last and next regeneration projections give the date of an
\* ISO-8601 date string, the date component of an ISO-8601 date-time string
\* (separated by T or a space, possibly ending in Z or an offset), and no
\* value for an absent, null or unparsable string.
C26_RegenerationDates ==
    [][/\ DateProjected("RainsoftLastRegenerationSensor.native_value", "last_regeneration")
       /\ DateProjected("RainsoftNextRegenerationSensor.native_value", "next_regeneration")
      ]_vars

\* the next regeneration of a device whose regenTime is "2024-01-15T08:00:00Z"
\* has been read as the 15th of January 2024
C26_Witness ==
    /\ Idle
    /\ op = "RainsoftNextRegenerationSensor.native_value"
    /\ OnlyDevice(Rec("B"))
    /\ data.items[1].val.next_regeneration = PyStr(RegenText("date-time Z"))
    /\ ret = Ok(PyDate(2024, 1, 15))

\* C27: an entity is available exactly when the last cycle succeeded and its
\* device id is a key of the snapshot; reading it never raises.
C27_Availability ==
    [][Reading("available") =>
          ret' = Ok(last_update_success /\ Top.arg.s \in DictKeys(data.items))]_vars

\* an entity whose device is in the snapshot has been read as unavailable after
\* a failed cycle
C27_Witness ==
    /\ Idle
    /\ op = "available"
    /\ ~last_update_success
    /\ data.items # <<>>
    /\ ret = Ok(FALSE)

-----------------------------------------------------------------------------
(* Properties of the options (checked under SpecOptions) *)

\* C30: the update interval of a coordinator is a whole number of hours from 1
\* to 4, it is 2 as long as no option is set, and the coordinator of a loaded
\* entry has the interval of the current options; the options only ever change
\* to an integer from 1 to 4.
C30_ScanIntervalBounded ==
    /\ [](update_interval # 0 =>
             /\ update_interval \in 1..4
             /\ options = Missing => update_interval = 2
             /\ (loaded /\ options # Missing) => update_interval = options.i)
    /\ [][options' # options => (options'.t = "int" /\ options'.i \in 1..4)]_vars

\* the entry was reloaded with the interval entered as the string "3", and
\* the form has just rejected another input
C30_Witness ==
    /\ loaded
    /\ options = PyInt(3)
    /\ update_interval = 3
    /\ op = "async_step_init"
    /\ ret.kind = "Invalid"

-----------------------------------------------------------------------------
(* Properties of the integration as a whole (checked under Spec, the client's *)
(* under SpecClient, the config flow's under SpecConfigFlow)                  *)

\* the devices of all locations of a locations response
ListedDevices(body) ==
    UNION {{body.list[k].devices[j] : j \in 1..Len(body.list[k].devices)} :
              k \in {i \in 1..Len(body.list) : body.list[i].hasDevices}}

\* every request of the cycle was answered 200 with a listing in which every
\* status is a string or null and some device has a usable id
WellAnswered ==
    /\ log # <<>>
    /\ \A k \in 1..Len(log) :
          /\ Answered(log[k], 200)
          /\ log[k].body.valid
          /\ log[k].body.locs = "list"
          /\ \A d \in ListedDevices(log[k].body) :
                d.systemStatusName.t \in {"str", "none", "missing"}
    /\ \E d \in ListedDevices(Last(log).body) : HasUsableId(d)

\* C31: a periodic cycle that follows a failed one and whose requests are all
\* answered with a well-formed 200 succeeds, and the host commits the snapshot
\* of exactly the devices it listed: nothing a failed cycle leaves behind
\* prevents the next success.
C31_RecoversAfterFailure ==
    [][(CycleEnded /\ op = "refresh" /\ ~last_update_success /\ WellAnswered) =>
          /\ ret'.kind = "ok"
          /\ last_update_success'
          /\ data'.set
          /\ DictKeys(data'.items) =
                 {Str(d.id) : d \in {e \in ListedDevices(Last(log).body) : HasUsableId(e)}}
      ]_vars

\* after a failed cycle, a cycle answered with a listing of two devices has
\* returned its snapshot
C31_Witness ==
    /\ CycleEnded
    /\ op = "refresh"
    /\ ~last_update_success
    /\ WellAnswered
    /\ ret.kind = "ok"
    /\ Len(ret.val) = 2

\* async_setup_entry is the running coroutine, at position pc
SetupAt(pc) == Running("async_setup_entry", pc)

\* C32: setup awaits authenticate, then get_customer_id, then the first
\* refresh of a new coordinator, each only after the one before succeeded; the
\* coordinator is stored only when the first refresh succeeded; a failed step
\* ends setup with ConfigEntryAuthFailed when it failed with AuthError (in the
\* first refresh: with ConfigEntryAuthFailed) and with ConfigEntryNotReady
\* otherwise, and leaves no coordinator stored.
C32_SetupOrder ==
    [][/\ SetupAt("start") => (Top'.fn = "authenticate" /\ ~loaded')
       /\ (SetupAt("authenticated") /\ ret.kind = "ok") =>
              (Top'.fn = "get_customer_id" /\ ~loaded')
       /\ (SetupAt("resolved") /\ ret.kind = "ok") =>
              (Top'.fn = "_async_refresh" /\ ~loaded' /\ ~data'.set)
       /\ (SetupAt("refreshed") /\ ret.kind = "ok") =>
              (stack' = <<>> /\ ret'.kind = "ok" /\ loaded' /\ data'.set)
       /\ (\E pc \in {"authenticated", "resolved", "refreshed"} :
              SetupAt(pc) /\ ret.kind # "ok") =>
              /\ stack' = <<>>
              /\ ~loaded'
              /\ ret'.kind = IF ret.kind \in {"AuthError", "ConfigEntryAuthFailed"}
                             THEN "ConfigEntryAuthFailed"
                             ELSE "ConfigEntryNotReady"
       /\ (loaded' /\ ~loaded) => (SetupAt("refreshed") /\ ret.kind = "ok")
      ]_vars

\* setup has ended with ConfigEntryNotReady because get_customer_id failed with
\* a connection error, and no coordinator is stored
C32_Witness ==
    /\ Idle
    /\ op = "async_setup_entry"
    /\ ret.kind = "ConfigEntryNotReady"
    /\ Truthy(token)
    /\ customer_id = PyNone
    /\ Last(log).ep = "/customer"
    /\ Last(log).err = "timeout"
    /\ ~loaded

\* the cycle's request was answered 400 and the login that followed failed
ReauthFailed ==
    /\ Len(log) = 2
    /\ Answered(log[1], 400)
    /\ log[2].ep = "/login"
    /\ ~LoginSucceeded(log[2])

\* C34: authenticate returns or raises AuthError or ConnectionError, never
\* ApiError: a login answered with a status below 500 other than 200, or with
\* a 200 whose body is not JSON, raises AuthError, and one answered with a
\* status of 500 or more raises ConnectionError; so a poll cycle whose
\* re-authentication failed ends with ConfigEntryAuthFailed or UpdateFailed.
C34_AuthenticateErrors ==
    [][/\ (Running("authenticate", "wait") /\ Returned) =>
              /\ ret'.kind \in {"ok", "AuthError", "ConnectionError"}
              /\ Last(log).ep = "/login"
              /\ (Last(log).err = "none" /\ Last(log).status \in {400, 401, 403, 404}) =>
                     ret'.kind = "AuthError"
              /\ (Answered(Last(log), 200) /\ ~Last(log).body.valid) =>
                     ret'.kind = "AuthError"
              /\ (Last(log).err = "none" /\ Last(log).status >= 500) =>
                     ret'.kind = "ConnectionError"
       /\ (Running("_async_update_data", "wait") /\ Returned /\ ReauthFailed) =>
              /\ ret.kind \in {"AuthError", "ConnectionError"}
              /\ ret'.kind = IF ret.kind = "AuthError" THEN "ConfigEntryAuthFailed"
                             ELSE "UpdateFailed"
      ]_vars

\* a poll cycle has ended with ConfigEntryAuthFailed after its
\* re-authentication was answered 404
C34_Witness ==
    /\ CycleEnded
    /\ op = "refresh"
    /\ ReauthFailed
    /\ Answered(log[2], 404)
    /\ ret.kind = "ConfigEntryAuthFailed"

\* C35: a successful authenticate leaves a token that is not null, a token
\* that is not null never becomes null again, a cached customer id is never
\* cleared, and get_devices does not fetch the customer id when one is cached.
C35_TokenAndIdKept ==
    [][/\ (Running("authenticate", "wait") /\ Returned /\ ret'.kind = "ok") => token' # PyNone
       /\ token # PyNone => token' # PyNone
       /\ customer_id # PyNone => customer_id' # PyNone
       /\ (Running("get_devices", "start") /\ customer_id # PyNone) =>
              Top'.fn # "get_customer_id"
      ]_vars

\* the positions in the cycle's listing of the devices stored under `key`
ListedUnder(key) ==
    {j \in 1..Len(CycleListing) :
        HasUsableId(CycleListing[j]) /\ Str(CycleListing[j].id) = key}

\* C36: in a committed snapshot every key is there once, its record is that of
\* the last device of the listing whose id has this string form, and there are
\* no more records than the listing has devices with usable ids.
C36_LastDuplicateWins ==
    (CycleCommitted /\ CycleListed) =>
        /\ \A i \in 1..Len(data.items) :
              LET at == ListedUnder(data.items[i].key)
                  last == CHOOSE j \in at : \A k \in at : k <= j
              IN  /\ at # {}
                  /\ data.items[i].val.id = CycleListing[last].id
                  /\ data.items[i].val.salt_level =
                         (IF CycleListing[last].saltLbs = Missing THEN PyInt(0)
                          ELSE CycleListing[last].saltLbs)
        /\ \A i, j \in 1..Len(data.items) : data.items[i].key = data.items[j].key => i = j
        /\ Len(data.items) <=
               Cardinality({j \in 1..Len(CycleListing) : HasUsableId(CycleListing[j])})

\* a cycle that listed the device with id 1 and then the device with id "1" has
\* been committed: the one record under "1" is that of the second
C36_Witness ==
    /\ CycleCommitted
    /\ CycleListed
    /\ Idle
    /\ Len(CycleListing) = 2
    /\ CycleListing[1].id = PyInt(1)
    /\ CycleListing[2].id = PyStr(<<"1">>)
    /\ Len(data.items) = 1
    /\ data.items[1].val.id = PyStr(<<"1">>)
    /\ data.items[1].val.salt_level = PyInt(20)

\* the entities of one platform that belong to one device id
EntitiesOf(set, platform, id) == {e \in set : e.platform = platform /\ e.device_id = id}

\* C37: when the setup forwards to the platforms after a successful first
\* refresh, the entities are exactly four sensors and three binary sensors for
\* each key of the committed snapshot, with pairwise distinct unique ids of the
\* form deviceId_key; while the entry stays loaded the entity set does not
\* change, whatever later snapshots hold; and an entity whose device is not in
\* the current snapshot reports unavailable.
C37_EntitySetFixed ==
    [][/\ (SetupAt("refreshed") /\ Returned /\ ret.kind = "ok") =>
              /\ \A id \in DictKeys(data.items) :
                    /\ Cardinality(EntitiesOf(entities', "sensor", id)) = 4
                    /\ Cardinality(EntitiesOf(entities', "binary_sensor", id)) = 3
              /\ \A e \in entities' :
                    /\ e.device_id \in DictKeys(data.items)
                    /\ e.platform \in {"sensor", "binary_sensor"}
                    /\ e.unique_id = e.device_id \o <<"_">> \o e.key
              /\ \A e, f \in entities' : e.unique_id = f.unique_id => e = f
       /\ (loaded /\ loaded') => entities' = entities
       /\ \A e \in entities' :
              e.device_id \notin DictKeys(data'.items) =>
                  Available(last_update_success', data', e.device_id) = Ok(FALSE)
      ]_vars

\* a poll cycle has committed a snapshot with a device that has no entities,
\* while the seven entities of the device of the first snapshot are still there
\* and that device is gone from the snapshot
C37_Witness ==
    /\ loaded
    /\ Idle
    /\ op = "refresh"
    /\ ret.kind = "ok"
    /\ last_update_success
    /\ Cardinality(entities) = 7
    /\ \E e \in entities : e.device_id \notin DictKeys(data.items)
    /\ \E id \in DictKeys(data.items) : \A e \in entities : e.device_id # id

-----------------------------------------------------------------------------
(* Properties of the config flow *)

\* validate_credentials, or the user step that awaits it, is the running
\* coroutine at position pc
FlowAt(fn, pc) == Running(fn, pc) /\ Returned

\* the address has no capital letter and no blank at either end
LowerCasedTrimmed(email) ==
    /\ \A k \in 1..Len(email) : email[k] \notin {"A", "B", "C", "D"}
    /\ email # <<>> => (email[1] # " " /\ email[Len(email)] # " ")

\* C33: get_customer_id is awaited only when authenticate returned, and the user
\* step gets the validated info only when get_customer_id returned; the step
\* then creates one entry whose e-mail is the submitted one lower-cased and
\* trimmed (or, when that address is configured already, shows the form with
\* unknown); when the validation raised, the step shows the form with
\* invalid_auth for AuthError, cannot_connect for ConnectionError and unknown
\* for anything else, and the entries stay as they were; nothing else creates
\* an entry.
C33_ConfigFlow ==
    [][/\ Running("validate_credentials", "start") => Top'.fn = "authenticate"
       /\ FlowAt("validate_credentials", "authenticated") =>
              IF ret.kind = "ok" THEN Top'.fn = "get_customer_id"
              ELSE Top'.fn = "async_step_user" /\ ret' = ret
       /\ FlowAt("validate_credentials", "resolved") =>
              /\ Top'.fn = "async_step_user"
              /\ ret'.kind = ret.kind
              /\ ret.kind # "ok" => ret' = ret
       /\ FlowAt("async_step_user", "validated") =>
              /\ stack' = <<>>
              /\ ret'.kind = "ok"
              /\ ret.kind = "AuthError" => ret'.val = ShowForm("invalid_auth")
              /\ ret.kind = "ConnectionError" => ret'.val = ShowForm("cannot_connect")
              /\ ret.kind \notin {"ok", "AuthError", "ConnectionError"} =>
                     ret'.val = ShowForm("unknown")
              /\ ret.kind # "ok" => entries' = entries
              /\ ret.kind = "ok" =>
                     \/ /\ ret'.val.type = "create_entry"
                        /\ ret'.val.email = Strip(Lower(Top.arg.s))
                        /\ LowerCasedTrimmed(ret'.val.email)
                        /\ customer_id # PyNone
                        /\ \E e \in entries' :
                              /\ e.email = ret'.val.email
                              /\ e.unique_id = e.email
                              /\ entries' = entries \cup {e}
                              /\ e \notin entries
                     \/ /\ ret'.val = ShowForm("unknown")
                        /\ entries' = entries
                        /\ \E e \in entries : e.unique_id = Strip(Lower(Top.arg.s))
       /\ entries' # entries => (FlowAt("async_step_user", "validated") /\ ret.kind = "ok")
      ]_vars

\* the step has created the entry for the address given as " C@d ", after an
\* entry for another address
C33_Witness ==
    /\ Idle
    /\ op = "async_step_user"
    /\ ret.kind = "ok"
    /\ ret.val.type = "create_entry"
    /\ ret.val.email = <<"c", "@", "d">>
    /\ Cardinality(entries) = 2

====
